---- MODULE Spec2Model ----
(***************************************************************************)
(* Model of the Combine pipeline (label normalisation, per-foam merge,     *)
(* workbook assembly, "Previous results" rotation) and of the FoamType-    *)
(* Manager configuration store of SiphonyGIU.                              *)
(*                                                                         *)
(* Strings that the code inspects character by character (labels) are      *)
(* sequences of one-character strings; every other string is an atom.      *)
(***************************************************************************)
EXTENDS Integers, Sequences, FiniteSets, TLC

VARIABLES
    \* normalize_label applied to one cell, then to its own result
    raw, out, out2, nstage,
    \* Combine: the selected input files, the foam type being merged, the
    \* table merge_for_foam returned and the workbook create_combined_excel built;
    \* foamInputs is the dict of foam type -> files map of a run over several
    \* foam types, as the sequence of its items
    files, foam, mphase, merged, workbook, foamInputs,
    \* Combine runs: the All_Results files of the output folder and of its
    \* "Previous results" subfolder, the date of the latest run, the position
    \* of the run in progress, its output file name, the number of finished
    \* runs, and the content the output file had before this run replaced it
    outDir, prevDir, today, apc, outName, runs, replaced,
    \* FoamTypeManager: self.config, the document last written to the config
    \* file, the call made last with what it returned (ret; view is the dict a
    \* read returned), and the number of calls
    config, disk, op, ret, view, nops,
    \* Combine SEM Results: the label looked for, the sheet names of
    \* histogram_<label>.xlsx in workbook order, the sheet the search chose,
    \* and the position of the search
    histLabel, histSheets, histTarget, histPhase,
    \* a module window: which module it is, its path fields, the dict
    \* get_suggested_paths (for Combine: its own candidates too) gives it, the
    \* paper's base path, the paths that exist on disk, and whether
    \* load_suggested_paths has run
    loadModule, loadFields, loadSug, loadBase, loadDisk, loadPhase,
    \* PDR Registros ledger: column A of the sheet, row by row, the current
    \* foam type of the window, the file names the fallback update was
    \* called with, and what the calls returned
    regRows, regFoam, regCalls, regRets,
    \* PDR window: self.current_foam_type, the three path fields, and the
    \* paths that exist on disk
    pdrFoam, pdrFields, pdrDisk,
    \* New paper: the foam types selected, the sheets of the DoE.xlsx of the
    \* paper, the foam type Combine asked the DoE reader for, and the table
    \* the reader returned
    tplFoams, tplSheets, tplAsked, tplOut

varsN == <<raw, out, out2, nstage>>

varsM == <<files, foam, mphase, merged, workbook, foamInputs>>

varsA == <<outDir, prevDir, today, apc, outName, runs, replaced>>

varsC == <<config, disk, op, ret, view, nops>>

varsH == <<histLabel, histSheets, histTarget, histPhase>>

varsL == <<loadModule, loadFields, loadSug, loadBase, loadDisk, loadPhase>>

varsR == <<regRows, regFoam, regCalls, regRets>>

varsP == <<pdrFoam, pdrFields, pdrDisk>>

varsT == <<tplFoams, tplSheets, tplAsked, tplOut>>

varsX == <<varsH, varsL, varsR, varsP, varsT>>

vars == <<varsN, varsM, varsA, varsC, varsX>>

----------------------------------------------------------------------------
(* Characters                                                              *)

Digits == {"0", "1", "2", "3", "4", "5", "6", "7", "8", "9"}

IsDigit(c) == c \in Digits

\* str.strip() with no argument removes whitespace
IsSpace(c) == c \in {" ", "\t"}

\* re.IGNORECASE on the letters of the four extensions
Lower(c) ==
    CASE c = "X" -> "x"
      [] c = "L" -> "l"
      [] c = "S" -> "s"
      [] c = "C" -> "c"
      [] c = "V" -> "v"
      [] c = "T" -> "t"
      [] OTHER -> c

LowerStr(s) == [i \in 1..Len(s) |-> Lower(s[i])]

----------------------------------------------------------------------------
(* CombineModule.normalize_label                                           *)

RECURSIVE LStrip(_)
LStrip(s) ==
    IF s # <<>> /\ IsSpace(Head(s)) THEN LStrip(Tail(s)) ELSE s

RECURSIVE RStrip(_)
RStrip(s) ==
    IF s # <<>> /\ IsSpace(s[Len(s)]) THEN RStrip(SubSeq(s, 1, Len(s) - 1)) ELSE s

\* label = str(s).strip()
Strip(s) == RStrip(LStrip(s))

Extensions ==
    { <<".", "x", "l", "s", "x">>, <<".", "x", "l", "s">>,
      <<".", "c", "s", "v">>, <<".", "t", "x", "t">> }

EndsWithExt(s, e) ==
    /\ Len(s) >= Len(e)
    /\ LowerStr(SubSeq(s, Len(s) - Len(e) + 1, Len(s))) = e

\* re.sub(r"\.(xlsx|xls|csv|txt)$", "", label, flags=re.IGNORECASE):
\* the pattern is anchored at the end, so at most one extension goes
RemoveExtension(s) ==
    IF \E e \in Extensions : EndsWithExt(s, e)
    THEN LET e == CHOOSE x \in Extensions : EndsWithExt(s, x)
         IN SubSeq(s, 1, Len(s) - Len(e))
    ELSE s

\* index of the last digit of the digit run that starts at i (i-1: no digit at i)
RECURSIVE DigitRunEnd(_, _)
DigitRunEnd(s, i) ==
    IF i <= Len(s) /\ IsDigit(s[i]) THEN DigitRunEnd(s, i + 1) ELSE i - 1

MinTokenDigits == 4

\* end of the match of (\d{4,}(?:-\d+)?) that starts at i, given the end e of
\* the digit run that starts at i; 0 when no match starts at i
MatchEnd(s, i, e) ==
    IF e - i + 1 < MinTokenDigits THEN 0
    ELSE IF e + 2 <= Len(s) /\ s[e + 1] = "-" /\ IsDigit(s[e + 2])
         THEN DigitRunEnd(s, e + 2)
         ELSE e

MatchAt(s, i) == MatchEnd(s, i, DigitRunEnd(s, i))

\* re.findall: leftmost, greedy, non-overlapping matches from position i on;
\* e is the end of the match at i
RECURSIVE FindAll(_, _)
FindNext(s, i, e) ==
    IF e = 0 THEN FindAll(s, i + 1)
    ELSE <<SubSeq(s, i, e)>> \o FindAll(s, e + 1)

FindAll(s, i) ==
    IF i > Len(s) THEN <<>> ELSE FindNext(s, i, MatchAt(s, i))

Clean(s) == RemoveExtension(Strip(s))

\* "return matches[-1] if matches else label"
LastMatch(label, matches) ==
    IF matches # <<>> THEN matches[Len(matches)] ELSE label

\* contrast: the first token instead of the last, "matches[0]"
FirstMatch(label, matches) ==
    IF matches # <<>> THEN matches[1] ELSE label

LabelOf(label) == LastMatch(label, FindAll(label, 1))

\* contrast: normalize_label returning the first token of the label
normalize_label_first(s) == FirstMatch(Clean(s), FindAll(Clean(s), 1))

normalize_label(s) == LabelOf(Clean(s))

----------------------------------------------------------------------------
(* Tables (pandas DataFrames)                                              *)
(* A cell is a tagged tuple; the Label column holds the label string.      *)

NA == <<"na">>

Num(v) == <<"num", v>>

Str(a) == <<"str", a>>

IsNum(x) == x[1] = "num"

\* a text cell that writes the number v with a decimal comma ("0,12")
Comma(v) == <<"comma", v>>

Range(f) == {f[i] : i \in DOMAIN f}

RECURSIVE PickIdx(_, _, _)
PickIdx(s, I, k) ==
    IF k > Len(s) THEN <<>>
    ELSE (IF k \in I THEN <<s[k]>> ELSE <<>>) \o PickIdx(s, I, k + 1)

\* a frame: its column list, its rows (column -> cell), and whether building it
\* raised instead of returning
EmptyFrame(cols) == [columns |-> cols, rows |-> <<>>, exc |-> FALSE]

RaisedFrame == [columns |-> <<>>, rows |-> <<>>, exc |-> TRUE]

Frame(cols, rows) == [columns |-> cols, rows |-> rows, exc |-> FALSE]

\* DataFrame.empty
IsEmpty(df) == df.rows = <<>> \/ df.columns = <<>>

HasColumn(df, c) == c \in Range(df.columns)

BASE_NEW_COLUMN_ORDER ==
    << "Polymer", "Additive", "Additive %", "Label",
       "m(g)", "Water (g)", "T (C)", "P CO2 (bar)", "Psat (MPa)", "t (min)",
       "Pi (MPa)", "Pf (MPa)", "PDR (MPa/s)",
       "n SEM images", "d (um)", "Desvest d (um)", "RSD d (%)",
       "Nv (cells.cm^3)", "Desvest Nv (cells.cm^3)", "RSD Nv (%)",
       "rho foam (g/cm^3)", "rho foam (kg/m^3)", "Desvest rho foam (g/cm^3)",
       "Desvest rho foam (kg/m^3)", "%DER rho foam (g/cm^3)", "rho_r", "X",
       "OC (%)",
       "DSC Tm (C)", "DSC Xc (%)", "DSC Tg (C)" >>

DENSITY_DATA_COLUMNS ==
    << "rho foam (g/cm^3)", "rho foam (kg/m^3)", "Desvest rho foam (g/cm^3)",
       "Desvest rho foam (kg/m^3)", "%DER rho foam (g/cm^3)", "rho_r", "X" >>

DoeColumns ==
    << "Polymer", "Additive", "Additive %", "Label", "m(g)", "Water (g)",
       "T (C)", "P CO2 (bar)", "Psat (MPa)", "t (min)" >>

DoeMergeColumns ==
    << "Additive", "Additive %", "m(g)", "Water (g)", "T (C)", "P CO2 (bar)",
       "t (min)" >>

PdrColumns == << "Label", "Pi (MPa)", "Pf (MPa)", "PDR (MPa/s)" >>

PdrMergeColumns == << "Pi (MPa)", "Pf (MPa)", "PDR (MPa/s)" >>

OcColumns == << "Label", "OC (%)" >>

DscColumns == << "Label", "DSC Tm (C)", "DSC Xc (%)", "DSC Tg (C)" >>

DscMergeColumns == << "DSC Tm (C)", "DSC Xc (%)", "DSC Tg (C)" >>

SemMergeColumns ==
    << "n SEM images", "d (um)", "Desvest d (um)", "RSD d (%)",
       "Nv (cells.cm^3)", "Desvest Nv (cells.cm^3)", "RSD Nv (%)" >>

SemColumns == << "Label" >> \o SemMergeColumns

----------------------------------------------------------------------------
(* Source files.  A file is not selected / missing ("none"), present but   *)
(* unreadable: a corrupt workbook or one without the sheet asked for       *)
(* ("bad"), or a workbook ("ok") whose sheet has one entry per data row:   *)
(* the content of the label cell (<<>> is a blank cell) and the number     *)
(* found in its data cells, which hold it as a number ("num"), as text     *)
(* with a decimal comma ("comma"), or are blank ("blank").                 *)

Sources == {"doe", "density", "pdr", "oc", "dsc", "sem"}

NoFile == [kind |-> "none", sheet |-> "", rows |-> <<>>]

BadFile == [kind |-> "bad", sheet |-> "", rows |-> <<>>]

\* str(float("nan")): what normalize_label sees for a blank cell under Series.map
NanText == <<"n", "a", "n">>

NormCell(cell) == normalize_label(IF cell = <<>> THEN NanText ELSE cell)

\* contrast: a reader without its "except Exception", the error escaping
TryReadNoExcept(file, cols, frame) ==
    IF file.kind = "none" THEN EmptyFrame(cols)
    ELSE IF file.kind = "bad" THEN RaisedFrame
    ELSE frame

\* the readers' "if not path or not os.path.exists(path)" and "except Exception"
TryRead(file, cols, frame) ==
    IF file.kind = "none" THEN EmptyFrame(cols)
    ELSE IF file.kind = "bad" THEN EmptyFrame(cols)
    ELSE frame

\* the value pandas reads from a data cell of the row
Cell(row) ==
    IF row.kind = "num" THEN Num(row.val)
    ELSE IF row.kind = "comma" THEN Comma(row.val)
    ELSE NA

\* pd.to_numeric(series, errors='coerce'), one cell: text with a comma is
\* no number
to_numeric(cell) == IF IsNum(cell) THEN cell ELSE NA

\* _normalize_numeric_series, one cell: whitespace removed and ',' made '.'
\* before pd.to_numeric
normalize_numeric_series(cell) ==
    IF cell[1] = "comma" THEN Num(cell[2]) ELSE to_numeric(cell)

\* contrast: Psat derived only into a column that is there and empty
ensure_psat_present(df) ==
    IF IsEmpty(df) THEN df
    ELSE LET has == HasColumn(df, "Psat (MPa)")
             psat_empty == has /\ \A i \in DOMAIN df.rows : df.rows[i]["Psat (MPa)"] = NA
         IN IF psat_empty /\ HasColumn(df, "P CO2 (bar)")
            THEN LET newcols == IF has THEN df.columns
                                ELSE Append(df.columns, "Psat (MPa)")
                     psat(r) == IF IsNum(r["P CO2 (bar)"])
                                THEN Num(r["P CO2 (bar)"][2] \div 10)
                                ELSE NA
                 IN [df EXCEPT
                       !.columns = newcols,
                       !.rows = [i \in DOMAIN df.rows |->
                                   [c \in Range(newcols) |->
                                       IF c = "Psat (MPa)" THEN psat(df.rows[i])
                                       ELSE df.rows[i][c]]]]
            ELSE df

\* _ensure_psat_column
ensure_psat_column(df) ==
    IF IsEmpty(df) THEN df
    ELSE LET has == HasColumn(df, "Psat (MPa)")
             psat_empty == has /\ \A i \in DOMAIN df.rows : df.rows[i]["Psat (MPa)"] = NA
         IN IF (~has \/ psat_empty) /\ HasColumn(df, "P CO2 (bar)")
            THEN LET newcols == IF has THEN df.columns
                                ELSE Append(df.columns, "Psat (MPa)")
                     psat(r) == IF IsNum(r["P CO2 (bar)"])
                                THEN Num(r["P CO2 (bar)"][2] \div 10)
                                ELSE NA
                 IN [df EXCEPT
                       !.columns = newcols,
                       !.rows = [i \in DOMAIN df.rows |->
                                   [c \in Range(newcols) |->
                                       IF c = "Psat (MPa)" THEN psat(df.rows[i])
                                       ELSE df.rows[i][c]]]]
            ELSE df

\* "for col in columns: if col not in df.columns: df[col] = pd.NA"
AddMissingColumns(df, cols) ==
    LET missing == SelectSeq(cols, LAMBDA c : ~HasColumn(df, c))
        newcols == df.columns \o missing
    IN [df EXCEPT
          !.columns = newcols,
          !.rows = [i \in DOMAIN df.rows |->
                      [c \in Range(newcols) |->
                          IF HasColumn(df, c) THEN df.rows[i][c] ELSE NA]]]

\* df[cols]
Project(df, cols) ==
    [df EXCEPT
       !.columns = cols,
       !.rows = [i \in DOMAIN df.rows |-> [c \in Range(cols) |-> df.rows[i][c]]]]

\* _read_doe_pos: the columns read by position, Polymer set, Label stripped
DoeRawRows(file, fm) ==
    [i \in 1..Len(file.rows) |->
        [c \in Range(DoeColumns) \ {"Psat (MPa)"} |->
            IF c = "Label" THEN Strip(NormCell(file.rows[i].label))
            ELSE IF c = "Polymer" THEN Str(fm)
            ELSE IF c = "Additive %" THEN to_numeric(Cell(file.rows[i]))
            ELSE IF c = "Additive" /\ Cell(file.rows[i]) = NA THEN Str(<<>>)
            ELSE Cell(file.rows[i])]]

\* out[out['Label'] != ""] then out[~out['Label'].duplicated(keep='first')]
KeepFirst(rows) ==
    {i \in DOMAIN rows :
       /\ rows[i]["Label"] # <<>>
       /\ \A j \in 1..(i - 1) : rows[j]["Label"] # rows[i]["Label"]}

DoeReadColumns ==
    << "Label", "Additive", "Additive %", "m(g)", "Water (g)",
       "T (C)", "P CO2 (bar)", "t (min)", "Polymer" >>

DoeFrame(rows) ==
    ensure_psat_column(Frame(DoeReadColumns, PickIdx(rows, KeepFirst(rows), 1)))

read_doe_pos(file, fm) ==
    TryRead(file, DoeColumns,
            Project(AddMissingColumns(DoeFrame(DoeRawRows(file, fm)), DoeColumns),
                    DoeColumns))

KgFactor == 1000

\* series * 1000, one cell
TimesKg(cell) == IF IsNum(cell) THEN Num(cell[2] * KgFactor) ELSE NA

\* _read_density_pos
DensityRows(file) ==
    [i \in 1..Len(file.rows) |->
        [c \in Range(<<"Label">> \o DENSITY_DATA_COLUMNS) |->
            IF c = "Label" THEN NormCell(file.rows[i].label)
            ELSE IF c \in {"rho foam (kg/m^3)", "Desvest rho foam (kg/m^3)"}
                 THEN TimesKg(normalize_numeric_series(Cell(file.rows[i])))
            ELSE Cell(file.rows[i])]]

read_density_pos(file, fm) ==
    TryRead(file, <<"Label">> \o DENSITY_DATA_COLUMNS,
            Frame(<<"Label">> \o DENSITY_DATA_COLUMNS, DensityRows(file)))

\* a reader that takes the label from one column and every metric from another
PositionalRows(file, cols) ==
    [i \in 1..Len(file.rows) |->
        [c \in Range(cols) |->
            IF c = "Label" THEN NormCell(file.rows[i].label)
            ELSE Num(file.rows[i].val)]]

\* _read_pdr_pos
read_pdr_pos(file) ==
    TryRead(file, PdrColumns, Frame(PdrColumns, PositionalRows(file, PdrColumns)))

\* _read_oc_pos: cached values first (blank label cells skipped), positional
\* pandas read when that gave no value at all
OcCached(file) ==
    {i \in 1..Len(file.rows) : file.rows[i].label \notin {<<>>, NanText}}

OcCachedRows(file) ==
    [i \in 1..Len(file.rows) |->
        [c \in Range(OcColumns) |->
            IF c = "Label" THEN normalize_label(file.rows[i].label)
            ELSE Num(file.rows[i].val)]]

read_oc_pos(file) ==
    TryRead(file, OcColumns,
            IF OcCached(file) # {}
            THEN Frame(OcColumns, PickIdx(OcCachedRows(file), OcCached(file), 1))
            ELSE Frame(OcColumns, PositionalRows(file, OcColumns)))

\* _read_dsc_pos: the columns the chosen sheet provides
DscSheetColumns(sheet) ==
    IF sheet = "dsc_results" THEN << "Label", "DSC Xc (%)", "DSC Tm (C)" >>
    ELSE IF sheet = "dsc_tg_results" THEN << "Label", "DSC Tg (C)" >>
    ELSE << "Label" >>

read_dsc_pos(file) ==
    TryRead(file, DscColumns,
            Frame(DscSheetColumns(file.sheet),
                  PositionalRows(file, DscSheetColumns(file.sheet))))

\* _read_sem_pos
read_sem_pos(file) ==
    TryRead(file, SemColumns, Frame(SemColumns, PositionalRows(file, SemColumns)))


----------------------------------------------------------------------------
(* CombineModule.merge_for_foam                                            *)

\* code points of the characters that occur in labels (Python orders str by them)
CharCode(c) ==
    CASE c = " " -> 32
      [] c = "-" -> 45
      [] c = "." -> 46
      [] c \in Digits -> 48
      [] c = "A" -> 65
      [] c = "B" -> 66
      [] c = "a" -> 97
      [] c = "n" -> 110
      [] c = "t" -> 116
      [] c = "x" -> 120
      [] OTHER -> 127

RECURSIVE StrLess(_, _)
StrLess(a, b) ==
    IF a = <<>> THEN b # <<>>
    ELSE IF b = <<>> THEN FALSE
    ELSE IF Head(a) = Head(b) THEN StrLess(Tail(a), Tail(b))
    ELSE CharCode(Head(a)) < CharCode(Head(b))

\* sorted(all_labels)
RECURSIVE SortLabels(_)
SortLabels(S) ==
    IF S = {} THEN <<>>
    ELSE LET m == CHOOSE x \in S : \A y \in S : y = x \/ StrLess(x, y)
         IN <<m>> \o SortLabels(S \ {m})

MinOf(I) == CHOOSE i \in I : \A j \in I : i <= j

MaxOf(I) == CHOOSE i \in I : \A j \in I : j <= i

\* rows of df whose (re-normalised) label is lbl:  idx(df).loc[lbl]
Matching(df, lbl) ==
    {i \in DOMAIN df.rows : normalize_label(df.rows[i]["Label"]) = lbl}

\* i_df.loc[lbl][c]: the cell when one row matches, a Series of cells otherwise
SeriesCell(df, I, c) ==
    IF Cardinality(I) = 1 THEN df.rows[MinOf(I)][c]
    ELSE <<"series", PickIdx([i \in DOMAIN df.rows |-> df.rows[i][c]], I, 1)>>

\* i_df.loc[lbl][[cols]].to_dict()[c]: the cell when one row matches, else the
\* {label: cell} dict that DataFrame.to_dict leaves (the last row wins)
DictCell(df, I, c) ==
    IF Cardinality(I) = 1 THEN df.rows[MinOf(I)][c]
    ELSE <<"dict", df.rows[MaxOf(I)][c]>>

IsScalar(x) == x[1] \notin {"series", "dict"}

\* the part of the row dict that one source adds for lbl, as <<column, cell>>
\* pairs; I is the set of rows of the source's frame that carry lbl
DoeCells(df, I) ==
    IF ~IsEmpty(df) /\ I # {}
    THEN [k \in DOMAIN DoeMergeColumns |->
            <<DoeMergeColumns[k], df.rows[MinOf(I)][DoeMergeColumns[k]]>>]
    ELSE <<>>

DoePart(df, lbl) == DoeCells(df, Matching(df, lbl))

DictCells(df, I, cols) ==
    IF ~IsEmpty(df) /\ I # {}
    THEN [k \in DOMAIN cols |-> <<cols[k], DictCell(df, I, cols[k])>>]
    ELSE <<>>

DictPart(df, lbl, cols) == DictCells(df, Matching(df, lbl), cols)

SeriesCells(df, I, present) ==
    IF ~IsEmpty(df) /\ I # {}
    THEN [k \in DOMAIN present |-> <<present[k], SeriesCell(df, I, present[k])>>]
    ELSE <<>>

SeriesPart(df, lbl, cols) ==
    SeriesCells(df, Matching(df, lbl), SelectSeq(cols, LAMBDA c : HasColumn(df, c)))

\* pd.DataFrame(rows): columns in order of first appearance, absent keys NaN
RECURSIVE DictColumns(_, _)
DictColumns(dicts, acc) ==
    IF dicts = <<>> THEN acc
    ELSE LET keys == [k \in DOMAIN Head(dicts) |-> Head(dicts)[k][1]]
             new == SelectSeq(keys, LAMBDA c : c \notin Range(acc))
         IN DictColumns(Tail(dicts), acc \o new)

DictGet(d, c) ==
    IF \E k \in DOMAIN d : d[k][1] = c
    THEN d[CHOOSE k \in DOMAIN d : d[k][1] = c][2]
    ELSE NA

DictsFrame(dicts, cols) ==
    Frame(cols, [i \in DOMAIN dicts |-> [c \in Range(cols) |-> DictGet(dicts[i], c)]])

DataFrameFromDicts(dicts) == DictsFrame(dicts, DictColumns(dicts, <<>>))

ReadAll(fm, fmap) ==
    [s \in Sources |->
        CASE s = "doe" -> read_doe_pos(fmap[s], fm)
          [] s = "density" -> read_density_pos(fmap[s], fm)
          [] s = "pdr" -> read_pdr_pos(fmap[s])
          [] s = "oc" -> read_oc_pos(fmap[s])
          [] s = "dsc" -> read_dsc_pos(fmap[s])
          [] s = "sem" -> read_sem_pos(fmap[s])]

\* contrast: the labels of the DoE frame alone
AllLabelsDoeOnly(fr) ==
    IF ~IsEmpty(fr["doe"])
    THEN {normalize_label(fr["doe"].rows[i]["Label"]) : i \in DOMAIN fr["doe"].rows}
    ELSE {}

\* set(df['Label'].map(self.normalize_label)) of every non-empty frame, united
AllLabels(fr) ==
    UNION { {normalize_label(fr[s].rows[i]["Label"]) : i \in DOMAIN fr[s].rows} :
            s \in {x \in Sources : ~IsEmpty(fr[x]) /\ HasColumn(fr[x], "Label")} }

MergeRow(fm, fr, lbl) ==
    << <<"Label", lbl>>, <<"Polymer", Str(fm)>> >>
      \o DoePart(fr["doe"], lbl)
      \o DictPart(fr["pdr"], lbl, PdrMergeColumns)
      \o SeriesPart(fr["sem"], lbl, SemMergeColumns)
      \o SeriesPart(fr["density"], lbl, DENSITY_DATA_COLUMNS)
      \o DictPart(fr["oc"], lbl, <<"OC (%)">>)
      \o SeriesPart(fr["dsc"], lbl, DscMergeColumns)

\* the tail of merge_for_foam: missing canonical columns added, then df[order]
Canonical(df) ==
    Project(AddMissingColumns(df, BASE_NEW_COLUMN_ORDER), BASE_NEW_COLUMN_ORDER)

\* the "rows" list: one dict per label, in sorted order
MergeRows(fm, fr, order) == [k \in DOMAIN order |-> MergeRow(fm, fr, order[k])]

\* merge_for_foam from the six frames the readers returned
MergeFrames(fm, fr, all_labels) ==
    IF \E s \in Sources : fr[s].exc THEN RaisedFrame
    ELSE IF all_labels = {} THEN Frame(<<>>, <<>>)
    ELSE Canonical(ensure_psat_column(
            DataFrameFromDicts(MergeRows(fm, fr, SortLabels(all_labels)))))

MergeRead(fm, fr) == MergeFrames(fm, fr, AllLabels(fr))

merge_for_foam(fm, fmap) == MergeRead(fm, ReadAll(fm, fmap))

----------------------------------------------------------------------------
(* CombineModule.create_combined_excel                                     *)
(* input_sets is the sequence of <<foam type, files map>> pairs in dict    *)
(* order.  The workbook is the per-foam sheets written so far and the      *)
(* All_Results table; exc says the call raised instead.                    *)

\* DataFrame.to_excel: openpyxl refuses a cell that holds a Series or a dict
Writable(df) ==
    \A i \in DOMAIN df.rows : \A c \in Range(df.columns) :
        c = "Label" \/ IsScalar(df.rows[i][c])

\* pd.concat([all_data, foam_data], ignore_index=True)
Concat(a, b) ==
    IF IsEmpty(a) THEN b ELSE [a EXCEPT !.rows = a.rows \o b.rows]

\* all_data[kg] = pd.to_numeric(all_data[g], errors='coerce') * 1000
RecomputeKg(df, g, kg) ==
    IF HasColumn(df, g)
    THEN LET newcols == IF HasColumn(df, kg) THEN df.columns ELSE Append(df.columns, kg)
         IN [df EXCEPT
               !.columns = newcols,
               !.rows = [i \in DOMAIN df.rows |->
                           [c \in Range(newcols) |->
                               IF c = kg
                               THEN TimesKg(to_numeric(df.rows[i][g]))
                               ELSE df.rows[i][c]]]]
    ELSE df

NoWorkbook == [sheets |-> <<>>, all |-> Frame(<<>>, <<>>), exc |-> FALSE]

\* Excel sheet name limit: the [:31] of sheet_name
SheetNameLimit == 31

\* foam_type.replace('/', '_')
ReplaceSlash(s) == [i \in DOMAIN s |-> IF s[i] = "/" THEN "_" ELSE s[i]]

\* s[:n]
Cut(s, n) == SubSeq(s, 1, IF Len(s) < n THEN Len(s) ELSE n)

\* sheet_name = foam_type.replace('/', '_')[:31]
sheet_name(foam_type) == Cut(ReplaceSlash(foam_type), SheetNameLimit)

\* the loop "for foam_type, files in input_sets.items()": foam_data is
\* merge_for_foam of the head of input_sets
RECURSIVE FoamLoop(_, _, _)
FoamStep(input_sets, sheets, all_data, foam_data) ==
    IF foam_data.exc \/ ~Writable(foam_data)
    THEN [sheets |-> sheets, all |-> all_data, exc |-> TRUE]
    ELSE IF IsEmpty(foam_data)
    THEN FoamLoop(Tail(input_sets), sheets, all_data)
    ELSE FoamLoop(Tail(input_sets),
                  Append(sheets, [foam |-> Head(input_sets)[1],
                                  name |-> sheet_name(Head(input_sets)[1]),
                                  table |-> foam_data]),
                  Concat(all_data, foam_data))

FoamLoop(input_sets, sheets, all_data) ==
    IF input_sets = <<>> THEN [sheets |-> sheets, all |-> all_data, exc |-> FALSE]
    ELSE FoamStep(input_sets, sheets, all_data,
                  merge_for_foam(Head(input_sets)[1], Head(input_sets)[2]))

\* the All_Results sheet: both kg/m^3 columns recomputed, Psat, canonical order
AllResults(all_data) ==
    Canonical(ensure_psat_column(
        RecomputeKg(RecomputeKg(all_data, "rho foam (g/cm^3)", "rho foam (kg/m^3)"),
                    "Desvest rho foam (g/cm^3)", "Desvest rho foam (kg/m^3)")))

FinishWorkbook(w) == IF w.exc THEN w ELSE [w EXCEPT !.all = AllResults(w.all)]

create_combined_excel(input_sets) ==
    FinishWorkbook(FoamLoop(input_sets, <<>>, Frame(<<>>, <<>>)))

----------------------------------------------------------------------------
(* The output folder and its "Previous results" subfolder.  The file       *)
(* "All_Results_<date>.xlsx" is the name <<date>>, the rotated             *)
(* "All_Results_<date>_<HHMMSS>.xlsx" is <<date, t>>.  A folder maps every *)
(* name to the content of the file (the number of the run that wrote it),  *)
(* NoContent when there is no such file; a missing "Previous results" is   *)
(* an empty one, both functions create it before they use it.              *)

MaxRuns == 4

MaxDate == 3

MaxTime == 2

Dates == 1..MaxDate

Times == 1..MaxTime

\* f"All_Results_{current_date}.xlsx"
DatedName(d) == <<d>>

FileNames == {DatedName(d) : d \in Dates} \cup {<<d, t>> : d \in Dates, t \in Times}

NoContent == 0

EmptyDir == [n \in FileNames |-> NoContent]

\* os.path.exists
Exists(dir, n) == dir[n] # NoContent

\* glob.glob(os.path.join(output_dir, "All_Results_*.xlsx"))
Listing(dir) == {n \in FileNames : Exists(dir, n)}

\* contrast: a colliding file moved under its own name
SameName(name, t) == name

\* f"{name}_{timestamp}{ext}"
SuffixedName(name, t) == Append(name, t)

\* dest_path of manage_previous_results for the file called name
DestName(prev, name, t) ==
    IF Exists(prev, name) THEN SuffixedName(name, t) ELSE name

\* contrast: the new workbook written before the old ones are moved
RunStepsWriteFirst == <<"write", "rotate", "copy">>

\* combine_all_data: manage_previous_results, create_combined_excel,
\* copy_to_previous_results
RunSteps == <<"rotate", "write", "copy">>

\* position after the step at position pc; 0 is "no run in progress"
StepAfter(pc) == IF pc = Len(RunSteps) THEN 0 ELSE pc + 1

RunsAfter(pc, n) == IF pc = Len(RunSteps) THEN n + 1 ELSE n

AtStep(kind) == apc \in DOMAIN RunSteps /\ RunSteps[apc] = kind

----------------------------------------------------------------------------
(* FoamTypeManager: the configuration document.  A Python list is a        *)
(* sequence, a dict is a function on its keys.                             *)

EmptyDict == [k \in {} |-> {}]

\* d[k] = v
DictSet(d, k, v) == [x \in DOMAIN d \cup {k} |-> IF x = k THEN v ELSE d[x]]

\* del d[k]   (only when k is a key)
DictDel(d, k) == [x \in DOMAIN d \ {k} |-> d[x]]

\* d.get(k, default)
DictGetOr(d, k, default) == IF k \in DOMAIN d THEN d[k] ELSE default

\* d.update(e)
DictUpdate(d, e) ==
    [x \in DOMAIN d \cup DOMAIN e |-> IF x \in DOMAIN e THEN e[x] ELSE d[x]]

\* x in list
Contains(list, x) == \E i \in DOMAIN list : list[i] = x

\* list.index(x)
FirstIndex(list, x) ==
    CHOOSE i \in DOMAIN list : list[i] = x /\ \A j \in 1..(i - 1) : list[j] # x

\* list.remove(x), called where x is known to be in the list
ListRemove(list, x) ==
    IF Contains(list, x)
    THEN SubSeq(list, 1, FirstIndex(list, x) - 1)
           \o SubSeq(list, FirstIndex(list, x) + 1, Len(list))
    ELSE list

GLOBAL_KEY == "__ALL__"

\* default_config of load_config: what a first start without a config file has
DefaultConfig ==
    [ papers |-> <<"Paper 1">>,
      current_paper |-> "Paper 1",
      foam_types |-> <<"Foam_Type_1", "Foam_Type_2", "Foam_Type_3">>,
      current_foam_type |-> "Foam_Type_1",
      paper_foam_types |->
          [p \in {"Paper 1"} |-> <<"Foam_Type_1", "Foam_Type_2", "Foam_Type_3">>],
      paper_root_paths |-> EmptyDict,
      module_scopes |->
          [m \in {"Combine", "Analysis", "PDR", "OC", "SEM", "DSC"} |->
              IF m \in {"Combine", "Analysis"} THEN "paper" ELSE "paper+foam"],
      module_paths |-> EmptyDict,
      all_results_paths |-> EmptyDict ]

\* the config file: not written yet, or the document of the last save_config
NoDocument == [saved |-> FALSE, doc |-> DefaultConfig]

Saved(doc) == [saved |-> TRUE, doc |-> doc]

\* get_module_scope
get_module_scope(cfg, module) ==
    IF module \in DOMAIN cfg.module_scopes
       /\ cfg.module_scopes[module] \in {"paper", "paper+foam"}
    THEN cfg.module_scopes[module]
    ELSE "paper+foam"

\* contrast: a guard that lets the last entry go
KeepsAny(list) == Len(list) > 0

\* the guard "len(self.config[...]) > 1" of remove_paper and remove_foam_type
KeepsOne(list) == Len(list) > 1

\* what a call leaves: self.config, whether save_config ran, the value returned
\* (view is the dict when the value is one)
Result(cfg, save, r) == [cfg |-> cfg, save |-> save, ret |-> r, view |-> EmptyDict]

ViewResult(cfg, save, v) == [cfg |-> cfg, save |-> save, ret |-> "dict", view |-> v]

\* add_paper
add_paper(cfg, paper) ==
    IF ~Contains(cfg.papers, paper)
    THEN Result([cfg EXCEPT !.papers = Append(@, paper)], TRUE, "None")
    ELSE Result(cfg, FALSE, "None")

\* remove_paper after "self.config['papers'].remove(paper)" and the clean-up:
\* "self.config['current_paper'] = self.config['papers'][0]" when it was current
RepointPaper(cfg, paper) ==
    IF cfg.current_paper # paper THEN Result(cfg, TRUE, "True")
    ELSE IF cfg.papers = <<>> THEN Result(cfg, FALSE, "IndexError")
    ELSE Result([cfg EXCEPT !.current_paper = cfg.papers[1]], TRUE, "True")

\* contrast: only the module paths of the paper cleaned up
ForgetPaperPaths(cfg, paper) ==
    [cfg EXCEPT
       !.papers = ListRemove(@, paper),
       !.module_paths = [m \in DOMAIN @ |-> DictDel(@[m], paper)]]

\* remove_paper, "self.config['papers'].remove(paper)" and the clean-up
ForgetPaper(cfg, paper) ==
    [cfg EXCEPT
       !.papers = ListRemove(@, paper),
       !.module_paths = [m \in DOMAIN @ |-> DictDel(@[m], paper)],
       !.paper_foam_types = DictDel(@, paper),
       !.all_results_paths = DictDel(@, paper),
       !.paper_root_paths = DictDel(@, paper)]

\* remove_paper
remove_paper(cfg, paper) ==
    IF Contains(cfg.papers, paper) /\ KeepsOne(cfg.papers)
    THEN RepointPaper(ForgetPaper(cfg, paper), paper)
    ELSE Result(cfg, FALSE, "False")

\* set_current_paper
set_current_paper(cfg, paper) ==
    Result([add_paper(cfg, paper).cfg EXCEPT !.current_paper = paper], TRUE, "None")

\* add_foam_type
add_foam_type(cfg, foam_type) ==
    IF ~Contains(cfg.foam_types, foam_type)
    THEN Result([cfg EXCEPT !.foam_types = Append(@, foam_type)], TRUE, "None")
    ELSE Result(cfg, FALSE, "None")

\* set_current_foam_type
set_current_foam_type(cfg, foam_type) ==
    Result([add_foam_type(cfg, foam_type).cfg EXCEPT !.current_foam_type = foam_type],
           TRUE, "None")

\* set_foam_types_for_paper
set_foam_types_for_paper(cfg, paper, foam_types) ==
    Result([cfg EXCEPT !.paper_foam_types = DictSet(@, paper, foam_types)], TRUE, "None")

\* remove_foam_type, module_paths clean-up: the foam type's entry goes from
\* every paper, then every paper entry that is empty goes
DropEmpty(by_paper) ==
    [p \in {q \in DOMAIN by_paper : DOMAIN by_paper[q] # {}} |-> by_paper[p]]

\* contrast: the foam type's entries left where they are
KeepFoam(by_paper, foam_type) == DropEmpty(by_paper)

ForgetFoam(by_paper, foam_type) ==
    DropEmpty([p \in DOMAIN by_paper |-> DictDel(by_paper[p], foam_type)])

\* contrast: the current foam type left as it is
StaleFoam(cfg, foam_type) == Result(cfg, TRUE, "True")

\* "self.config['current_foam_type'] = self.config['foam_types'][0]" when the
\* removed foam type was the current one
RepointFoam(cfg, foam_type) ==
    IF cfg.current_foam_type # foam_type THEN Result(cfg, TRUE, "True")
    ELSE IF cfg.foam_types = <<>> THEN Result(cfg, FALSE, "IndexError")
    ELSE Result([cfg EXCEPT !.current_foam_type = cfg.foam_types[1]], TRUE, "True")

\* remove_foam_type
remove_foam_type(cfg, foam_type) ==
    IF Contains(cfg.foam_types, foam_type) /\ KeepsOne(cfg.foam_types)
    THEN RepointFoam(
            [cfg EXCEPT
               !.foam_types = ListRemove(@, foam_type),
               !.module_paths = [m \in DOMAIN @ |-> ForgetFoam(@[m], foam_type)],
               !.paper_foam_types = [p \in DOMAIN @ |-> ListRemove(@[p], foam_type)]],
            foam_type)
    ELSE Result(cfg, FALSE, "False")

\* an optional argument left at None
None == "<None>"

\* "if paper is None: paper = self.get_current_paper()"
PaperOr(cfg, paper) == IF paper = None THEN cfg.current_paper ELSE paper

\* foam_key of get_module_paths / save_module_paths
FoamKey(cfg, module, foam_type) ==
    IF get_module_scope(cfg, module) = "paper" THEN GLOBAL_KEY
    ELSE IF foam_type = None THEN cfg.current_foam_type
    ELSE foam_type

\* datetime.now().isoformat() at the call number n: the clock moves with
\* every call
Timestamp(n) == "time " \o ToString(n)

\* contrast: the entry replaced by paths instead of updated with them
ReplacePaths(mp, module, paper, foam_key, paths) ==
    DictSet(mp, module,
        DictSet(DictGetOr(mp, module, EmptyDict), paper,
            DictSet(DictGetOr(DictGetOr(mp, module, EmptyDict), paper, EmptyDict),
                    foam_key, paths)))

\* mp.setdefault(module, {}).setdefault(paper, {}).setdefault(foam_key, {}).update(paths)
UpdatePaths(mp, module, paper, foam_key, paths) ==
    DictSet(mp, module,
        DictSet(DictGetOr(mp, module, EmptyDict), paper,
            DictSet(DictGetOr(DictGetOr(mp, module, EmptyDict), paper, EmptyDict),
                    foam_key,
                    DictUpdate(
                        DictGetOr(DictGetOr(DictGetOr(mp, module, EmptyDict),
                                            paper, EmptyDict),
                                  foam_key, EmptyDict),
                        paths))))

\* save_module_paths, called at time now
save_module_paths(cfg, module, foam_type, paths, paper, now) ==
    Result([cfg EXCEPT
              !.module_paths =
                  UpdatePaths(@, module, PaperOr(cfg, paper),
                              FoamKey(cfg, module, foam_type),
                              DictSet(paths, "last_used", now))],
           TRUE, "None")

\* set_paper_root_path
set_paper_root_path(cfg, paper, path) ==
    Result([cfg EXCEPT !.paper_root_paths = DictSet(@, paper, path)], TRUE, "None")

\* set_all_results_path
set_all_results_path(cfg, path, paper) ==
    Result([cfg EXCEPT !.all_results_paths = DictSet(@, PaperOr(cfg, paper), path)],
           TRUE, "None")

\* set_module_scope
set_module_scope(cfg, module, scope) ==
    IF scope \notin {"paper", "paper+foam"} THEN Result(cfg, FALSE, "ValueError")
    ELSE Result([cfg EXCEPT !.module_scopes = DictSet(@, module, scope)], TRUE, "None")

\* get_foam_types_for_paper: the paper's list, the global list when it has none
get_foam_types_for_paper(cfg, paper) ==
    DictGetOr(cfg.paper_foam_types, PaperOr(cfg, paper), cfg.foam_types)

\* the entry stored for (module, paper, foam_key), {} when there is none
StoredEntry(cfg, module, paper, foam_key) ==
    DictGetOr(DictGetOr(DictGetOr(cfg.module_paths, module, EmptyDict),
                        paper, EmptyDict),
              foam_key, EmptyDict)

\* contrast: the addressed entry returned, no legacy view
CanonicalView(cfg, module, paper, foam_key) ==
    StoredEntry(cfg, module, paper, foam_key)

\* get_module_paths, the dict returned: by_ft, or for a paper-scope module with
\* an empty by_ft the non-empty entry of the current foam type ("legacy")
ModulePathsView(cfg, module, paper, foam_key) ==
    IF /\ get_module_scope(cfg, module) = "paper"
       /\ StoredEntry(cfg, module, paper, foam_key) = EmptyDict
       /\ StoredEntry(cfg, module, paper, cfg.current_foam_type) # EmptyDict
    THEN StoredEntry(cfg, module, paper, cfg.current_foam_type)
    ELSE StoredEntry(cfg, module, paper, foam_key)

\* get_module_paths: the four setdefault calls leave empty dicts in self.config
\* and nothing is saved
get_module_paths(cfg, module, foam_type, paper) ==
    ViewResult([cfg EXCEPT
                  !.module_paths =
                      UpdatePaths(@, module, PaperOr(cfg, paper),
                                  FoamKey(cfg, module, foam_type), EmptyDict)],
               FALSE,
               ModulePathsView(cfg, module, PaperOr(cfg, paper),
                               FoamKey(cfg, module, foam_type)))

----------------------------------------------------------------------------
(* Paths.  An absolute path is the sequence of its components, the empty   *)
(* string is <<>>; a stored value that is not a string is Number.          *)

Number == <<"<number>">>

\* isinstance(value, str)
IsStr(value) == value # Number

\* os.path.join(base, *parts)
Join(base, parts) == base \o parts

\* os.path.normpath of an absolute path: "." dropped, ".." takes the component
\* before it (none at the root)
RECURSIVE NormInto(_, _, _)
NormInto(acc, path, i) ==
    IF i > Len(path) THEN acc
    ELSE IF path[i] = "." THEN NormInto(acc, path, i + 1)
    ELSE IF path[i] = ".."
         THEN NormInto(SubSeq(acc, 1, Len(acc) - 1), path, i + 1)
    ELSE NormInto(Append(acc, path[i]), path, i + 1)

Normpath(path) == NormInto(<<>>, path, 1)

\* the number of leading components a and b share
RECURSIVE SharedLen(_, _, _)
SharedLen(a, b, i) ==
    IF i > Len(a) \/ i > Len(b) \/ a[i] # b[i] THEN i - 1
    ELSE SharedLen(a, b, i + 1)

\* os.path.commonpath([a, b])
CommonPath(a, b) == SubSeq(a, 1, SharedLen(a, b, 1))

\* os.path.relpath(path, start) for a path under start
Relpath(path, start) ==
    IF Len(path) = Len(start) THEN <<".">>
    ELSE SubSeq(path, Len(start) + 1, Len(path))

----------------------------------------------------------------------------
(* FoamTypeManager.get_suggested_paths                                     *)

\* foam_key: the foam type for a paper+foam module, None for a paper module
SuggestKey(cfg, module, foam_type) ==
    IF get_module_scope(cfg, module) = "paper+foam"
    THEN (IF foam_type = None THEN cfg.current_foam_type ELSE foam_type)
    ELSE None

\* "ft = foam_key if foam_key else self.get_current_foam_type()"
SuggestFoam(cfg, foam_key) ==
    IF foam_key # None THEN foam_key ELSE cfg.current_foam_type

Folders(input, output) ==
    [k \in {"input_folder", "output_folder"} |->
        IF k = "input_folder" THEN input ELSE output]

\* the suggestions before the module-specific ones
ScopeSuggestions(base, module, foam_key) ==
    IF foam_key # None
    THEN Folders(Join(base, <<foam_key, module, "Input">>),
                 Join(base, <<foam_key, module, "Output">>))
    ELSE Folders(Join(base, <<module, "Input">>), Join(base, <<module, "Output">>))

\* the "if module == ..." chain
ModuleSuggestions(base, module, ft, suggestions) ==
    CASE module = "PDR" ->
           DictSet(DictUpdate(suggestions,
                       Folders(Join(base, <<ft, "PDR", "Input">>),
                               Join(base, <<ft, "PDR", "Output">>))),
                   "registros_file",
                   Join(base, <<ft, "PDR", "Output",
                                "PDR_Results_" \o ft \o ".xlsx">>))
      [] module = "OC" ->
           DictSet(DictSet(DictUpdate(suggestions,
                       Folders(Join(base, <<ft, "Open-cell content", "Input">>),
                               Join(base, <<ft, "Open-cell content", "Output">>))),
                   "results_file",
                   Join(base, <<ft, "Open-cell content", "Output",
                                "OC_Results_" \o ft \o ".xlsx">>)),
                   "density_file", Join(base, <<"Density.xlsx">>))
      [] module = "DSC" ->
           DictSet(DictUpdate(suggestions,
                       Folders(Join(base, <<ft, "DSC", "Input">>),
                               Join(base, <<ft, "DSC", "Output">>))),
                   "results_file",
                   Join(base, <<ft, "DSC", "Output",
                                "DSC_Results_" \o ft \o ".xlsx">>))
      [] module = "Combine" ->
           DictSet(suggestions, "output_folder", Join(base, <<"Results">>))
      [] module = "SEM" ->
           DictUpdate(suggestions,
                      Folders(Join(base, <<ft, "SEM", "Input">>),
                              Join(base, <<ft, "SEM", "Output">>)))
      [] module = "Analysis" ->
           DictSet(DictSet(suggestions, "results_file",
                           Join(base, <<"All_Results.xlsx">>)),
                   "density_file", Join(base, <<"Density.xlsx">>))
      [] OTHER -> suggestions

\* contrast: a fixed directory suggested when the paper has no root path
HardcodedRoot(roots, paper) == DictGetOr(roots, paper, <<"home", "Documents">>)

\* self.config.get("paper_root_paths", {}).get(paper), "" when there is none
RecordedRoot(roots, paper) == DictGetOr(roots, paper, <<>>)

\* get_suggested_paths after "saved_paths = self.get_module_paths(...)"
SuggestFrom(cfg, saved, base, module, foam_key) ==
    IF saved.view # EmptyDict THEN saved
    ELSE IF base = <<>> THEN ViewResult(saved.cfg, FALSE, EmptyDict)
    ELSE ViewResult(saved.cfg, FALSE,
            ModuleSuggestions(base, module, SuggestFoam(cfg, foam_key),
                              ScopeSuggestions(base, module, foam_key)))

\* get_suggested_paths
get_suggested_paths(cfg, module, foam_type, paper) ==
    SuggestFrom(cfg,
                get_module_paths(cfg, module, SuggestKey(cfg, module, foam_type),
                                 PaperOr(cfg, paper)),
                RecordedRoot(cfg.paper_root_paths, PaperOr(cfg, paper)),
                module, SuggestKey(cfg, module, foam_type))

----------------------------------------------------------------------------
(* FoamTypeManager.relocate_paper_root                                     *)

\* remap_path returned None
NotRemapped == [some |-> FALSE, path |-> <<>>]

RemappedTo(path) == [some |-> TRUE, path |-> path]

\* contrast: remap_path without the common-path test, every path re-rooted
\* after as many components as the old root has
remap_path_unchecked(value, old_norm, normalized_new) ==
    IF value = <<>> \/ ~IsStr(value) THEN NotRemapped
    ELSE IF Len(Normpath(value)) < Len(old_norm) THEN NotRemapped
    ELSE RemappedTo(Normpath(Join(normalized_new,
                                  Relpath(Normpath(value), old_norm))))

\* remap_path
remap_path(value, old_norm, normalized_new) ==
    IF value = <<>> \/ ~IsStr(value) THEN NotRemapped
    ELSE IF CommonPath(old_norm, Normpath(value)) # old_norm THEN NotRemapped
    ELSE RemappedTo(Normpath(Join(normalized_new,
                                  Relpath(Normpath(value), old_norm))))

\* "if new_value and new_value != value"
Remaps(value, old_norm, normalized_new) ==
    /\ remap_path(value, old_norm, normalized_new).some
    /\ remap_path(value, old_norm, normalized_new).path # <<>>
    /\ remap_path(value, old_norm, normalized_new).path # value

\* the fields the loop over module_paths looks at: not "last_used", strings
IsPathField(key, value) == key # "last_used" /\ IsStr(value)

\* one entry after the loop "for key, value in list(paths.items())"
RemapEntry(paths, old_norm, normalized_new) ==
    [key \in DOMAIN paths |->
        IF IsPathField(key, paths[key]) /\ Remaps(paths[key], old_norm, normalized_new)
        THEN remap_path(paths[key], old_norm, normalized_new).path
        ELSE paths[key]]

\* module_paths after the loop: only by_paper.get(paper) is walked
RemapModulePaths(mp, paper, old_norm, normalized_new) ==
    [m \in DOMAIN mp |->
        [p \in DOMAIN mp[m] |->
            IF p # paper THEN mp[m][p]
            ELSE [k \in DOMAIN mp[m][p] |->
                     RemapEntry(mp[m][p][k], old_norm, normalized_new)]]]

\* <<module, foam_key, key>> of every field of the paper the loop looks at
PaperFields(mp, paper) ==
    UNION { UNION { {<<m, k, key>> :
                       key \in {x \in DOMAIN mp[m][paper][k] :
                                   IsPathField(x, mp[m][paper][k][x])}} :
                    k \in DOMAIN mp[m][paper] } :
            m \in {x \in DOMAIN mp : paper \in DOMAIN mp[x]} }

\* the fields for which "updated += 1" runs
UpdatedFields(mp, paper, old_norm, normalized_new) ==
    {t \in PaperFields(mp, paper) :
        Remaps(mp[t[1]][paper][t[2]][t[3]], old_norm, normalized_new)}

\* all_results_paths after "if isinstance(current_results, str)"
RemapAllResults(all_results, paper, old_norm, normalized_new) ==
    IF /\ paper \in DOMAIN all_results
       /\ IsStr(all_results[paper])
       /\ Remaps(all_results[paper], old_norm, normalized_new)
    THEN DictSet(all_results, paper,
                 remap_path(all_results[paper], old_norm, normalized_new).path)
    ELSE all_results

\* what the all-results path adds to updated (which = "updated") or to
\* skipped (which = "skipped")
AllResultsCount(all_results, paper, old_norm, normalized_new, which) ==
    IF paper \notin DOMAIN all_results \/ ~IsStr(all_results[paper]) THEN 0
    ELSE IF Remaps(all_results[paper], old_norm, normalized_new)
         THEN (IF which = "updated" THEN 1 ELSE 0)
    ELSE IF all_results[paper] # <<>>
         THEN (IF which = "skipped" THEN 1 ELSE 0)
    ELSE 0

\* the dict relocate_paper_root returns; old_root None is <<>>
Report(updated, skipped, old_root, new_root) ==
    [updated |-> updated, skipped |-> skipped,
     old_root |-> old_root, new_root |-> new_root]

\* relocate_paper_root when the paper had a root path
RelocateFrom(cfg, paper, old_norm, normalized_new) ==
    ViewResult(
        [cfg EXCEPT
           !.paper_root_paths = DictSet(@, paper, normalized_new),
           !.module_paths = RemapModulePaths(@, paper, old_norm, normalized_new),
           !.all_results_paths =
               RemapAllResults(@, paper, old_norm, normalized_new)],
        TRUE,
        Report(Cardinality(UpdatedFields(cfg.module_paths, paper,
                                         old_norm, normalized_new))
                 + AllResultsCount(cfg.all_results_paths, paper,
                                   old_norm, normalized_new, "updated"),
               Cardinality(PaperFields(cfg.module_paths, paper)
                             \ UpdatedFields(cfg.module_paths, paper,
                                             old_norm, normalized_new))
                 + AllResultsCount(cfg.all_results_paths, paper,
                                   old_norm, normalized_new, "skipped"),
               old_norm, normalized_new))

\* relocate_paper_root
relocate_paper_root(cfg, paper, new_root) ==
    IF new_root = <<>> THEN Result(cfg, FALSE, "ValueError")
    ELSE IF RecordedRoot(cfg.paper_root_paths, paper) = <<>>
    THEN ViewResult([cfg EXCEPT
                       !.paper_root_paths = DictSet(@, paper, Normpath(new_root))],
                    TRUE, Report(0, 0, <<>>, Normpath(new_root)))
    ELSE RelocateFrom(cfg, paper,
                      Normpath(RecordedRoot(cfg.paper_root_paths, paper)),
                      Normpath(new_root))

----------------------------------------------------------------------------
(* Inputs of the normaliser: concatenations of at most MaxPieces pieces    *)

MaxPieces == 4

Pieces ==
    { <<" ">>, <<"a">>, <<"2", "0", "2", "5">>, <<"7">>, <<"-">>,
      <<".", "t", "x", "t">>, <<".", "X", "l", "s", "x">>,
      <<".", "x", "l", "s">>, <<".", "c", "s", "v">> }

RECURSIVE Concats(_)
Concats(n) ==
    IF n = 0 THEN {<<>>}
    ELSE LET shorter == Concats(n - 1)
         IN shorter \cup {p \o q : p \in shorter, q \in Pieces}

NoString == <<"?">>

\* the parts of the state a specification does not exercise stay as constructed
IdleNormalize ==
    /\ raw = <<>>
    /\ out = NoString
    /\ out2 = NoString
    /\ nstage = "off"

IdleMerge ==
    /\ files = [s \in Sources |-> NoFile]
    /\ foam = ""
    /\ mphase = "off"
    /\ merged = Frame(<<>>, <<>>)
    /\ workbook = NoWorkbook
    /\ foamInputs = <<>>

IdleArchive ==
    /\ outDir = EmptyDir
    /\ prevDir = EmptyDir
    /\ today = 1
    /\ apc = 0
    /\ outName = DatedName(1)
    /\ runs = 0
    /\ replaced = NoContent

IdleConfig ==
    /\ config = DefaultConfig
    /\ disk = NoDocument
    /\ op = [name |-> "", arg |-> <<>>]
    /\ ret = "None"
    /\ view = EmptyDict
    /\ nops = 0

\* no sheet: None, and the empty string of "if not target"
NoSheet == <<>>

IdleHistogram ==
    /\ histLabel = <<>>
    /\ histSheets = <<>>
    /\ histTarget = NoSheet
    /\ histPhase = "off"

IdleLoad ==
    /\ loadModule = ""
    /\ loadFields = <<>>
    /\ loadSug = <<>>
    /\ loadBase = ""
    /\ loadDisk = {}
    /\ loadPhase = "off"

IdleRegistros ==
    /\ regRows = <<>>
    /\ regFoam = <<>>
    /\ regCalls = <<>>
    /\ regRets = <<>>

IdlePdr ==
    /\ pdrFoam = ""
    /\ pdrFields = <<>>
    /\ pdrDisk = {}

NoFrame == EmptyFrame(<<>>)

IdleTemplate ==
    /\ tplFoams = <<>>
    /\ tplSheets = <<>>
    /\ tplAsked = <<>>
    /\ tplOut = NoFrame

IdleExtra ==
    /\ IdleHistogram
    /\ IdleLoad
    /\ IdleRegistros
    /\ IdlePdr
    /\ IdleTemplate

InitNormalize ==
    /\ raw \in Concats(MaxPieces)
    /\ out = NoString
    /\ out2 = NoString
    /\ nstage = "input"
    /\ IdleMerge
    /\ IdleArchive
    /\ IdleConfig
    /\ IdleExtra

\* label = self.normalize_label(cell)          (every reader)
Normalize ==
    /\ nstage = "input"
    /\ out' = normalize_label(raw)
    /\ nstage' = "once"
    /\ UNCHANGED <<raw, out2, varsM, varsA, varsC, varsX>>

\* tmp['Label'].map(self.normalize_label)      (merge_for_foam, on reader output)
Renormalize ==
    /\ nstage = "once"
    /\ out2' = normalize_label(out)
    /\ nstage' = "twice"
    /\ UNCHANGED <<raw, out, varsM, varsA, varsC, varsX>>

NextNormalize ==
    \/ Normalize
    \/ Renormalize

SpecNormalize == InitNormalize /\ [][NextNormalize]_vars

----------------------------------------------------------------------------
(* Combine on one foam type: files are selected for at most MaxFiles of   *)
(* the six sources, with at most MaxTotalRows data rows between them, then *)
(* the run merges them                                                     *)

MaxRows == 2

MaxTotalRows == 2

MaxFiles == 3

MergeFoams == { <<"F", "T", "1">> }

RawLabels == { <<"A">>, <<"B", " ", ".", "t", "x", "t">>, <<>> }

SheetNames(src) ==
    IF src = "dsc" THEN {"dsc_results", "dsc_tg_results", "Sheet1"} ELSE {"Sheet1"}

LabelSeqs == UNION { [1..n -> RawLabels] : n \in 0..MaxRows }

OkFiles(src) ==
    { [kind |-> "ok", sheet |-> sh,
       rows |-> [i \in DOMAIN ls |-> [label |-> ls[i], val |-> 10 * i, kind |-> "num"]]] :
      sh \in SheetNames(src), ls \in LabelSeqs }

RECURSIVE SumRows(_, _)
SumRows(fmap, S) ==
    IF S = {} THEN 0
    ELSE LET x == CHOOSE y \in S : TRUE
         IN Len(fmap[x].rows) + SumRows(fmap, S \ {x})

InitMerge ==
    /\ files = [s \in Sources |-> NoFile]
    /\ foam \in MergeFoams
    /\ mphase = "select"
    /\ merged = Frame(<<>>, <<>>)
    /\ workbook = NoWorkbook
    /\ foamInputs = <<>>
    /\ IdleNormalize
    /\ IdleArchive
    /\ IdleConfig
    /\ IdleExtra

\* browse_*: the user picks the file of a source that has none yet
SetFile(src) ==
    /\ mphase = "select"
    /\ files[src] = NoFile
    /\ Cardinality({s \in Sources : files[s] # NoFile}) < MaxFiles
    /\ \E f \in {BadFile} \cup OkFiles(src) :
          /\ SumRows(files, Sources \ {src}) + Len(f.rows) <= MaxTotalRows
          /\ files' = [files EXCEPT ![src] = f]
    /\ UNCHANGED <<foam, mphase, merged, workbook, foamInputs, varsN, varsA, varsC, varsX>>

\* combine_all_data -> create_combined_excel -> merge_for_foam
CombineFoam ==
    /\ mphase = "select"
    /\ merged' = merge_for_foam(foam, files)
    /\ workbook' = create_combined_excel(<< <<foam, files>> >>)
    /\ mphase' = "done"
    /\ UNCHANGED <<files, foam, foamInputs, varsN, varsA, varsC, varsX>>

NextMerge ==
    \/ \E src \in Sources : SetFile(src)
    \/ CombineFoam

SpecMerge == InitMerge /\ [][NextMerge]_vars

----------------------------------------------------------------------------
(* Combine runs into one output folder.  The date never goes back from one *)
(* run to the next; the time of day read at a collision is any of Times.   *)

InitArchive ==
    /\ outDir = EmptyDir
    /\ prevDir = EmptyDir
    /\ today = 1
    /\ apc = 0
    /\ outName = DatedName(1)
    /\ runs = 0
    /\ replaced = NoContent
    /\ IdleNormalize
    /\ IdleMerge
    /\ IdleConfig
    /\ IdleExtra

\* combine_all_data up to output_path: current_date = datetime.now()
BeginCombine ==
    /\ apc = 0
    /\ runs < MaxRuns
    /\ \E d \in Dates :
          /\ d >= today
          /\ today' = d
          /\ outName' = DatedName(d)
    /\ apc' = 1
    /\ replaced' = NoContent
    /\ UNCHANGED <<outDir, prevDir, runs, varsN, varsM, varsC, varsX>>

\* manage_previous_results, one turn of "for file_path in existing_files"
MoveOne ==
    /\ AtStep("rotate")
    /\ \E n \in Listing(outDir) \ {outName} : \E t \in Times :
          /\ prevDir' = [prevDir EXCEPT ![DestName(prevDir, n, t)] = outDir[n]]
          /\ outDir' = [outDir EXCEPT ![n] = NoContent]
    /\ UNCHANGED <<today, apc, outName, runs, replaced, varsN, varsM, varsC, varsX>>

\* manage_previous_results returns: no file is left to move
RotateDone ==
    /\ AtStep("rotate")
    /\ Listing(outDir) \ {outName} = {}
    /\ apc' = StepAfter(apc)
    /\ runs' = RunsAfter(apc, runs)
    /\ UNCHANGED <<outDir, prevDir, today, outName, replaced, varsN, varsM, varsC, varsX>>

\* create_combined_excel(output_path, input_sets): the file is replaced
WriteOutput ==
    /\ AtStep("write")
    /\ replaced' = outDir[outName]
    /\ outDir' = [outDir EXCEPT ![outName] = runs + 1]
    /\ apc' = StepAfter(apc)
    /\ runs' = RunsAfter(apc, runs)
    /\ UNCHANGED <<prevDir, today, outName, varsN, varsM, varsC, varsX>>

\* copy_to_previous_results: shutil.copy2 replaces a file of the same name
CopyOutput ==
    /\ AtStep("copy")
    /\ prevDir' = IF Exists(outDir, outName)
                  THEN [prevDir EXCEPT ![outName] = outDir[outName]]
                  ELSE prevDir
    /\ apc' = StepAfter(apc)
    /\ runs' = RunsAfter(apc, runs)
    /\ UNCHANGED <<outDir, today, outName, replaced, varsN, varsM, varsC, varsX>>

NextArchive ==
    \/ BeginCombine
    \/ MoveOne
    \/ RotateDone
    \/ WriteOutput
    \/ CopyOutput

SpecArchive == InitArchive /\ [][NextArchive]_vars

----------------------------------------------------------------------------
(* Calls on one FoamTypeManager, started without a config file or with the *)
(* file an earlier session left                                            *)

MaxOps == 3

PaperNames == {"Paper 1", "Paper 2"}

FoamNames == {"Foam_Type_1", "Foam_Type_2", "Foam_Type_3"}

FoamLists == { <<>>, <<"Foam_Type_1">>, <<"Foam_Type_3", "Foam_Type_2">> }

ModuleNames == {"Combine", "PDR"}

\* a folder under the root <<"r">> and one outside it
PathValues == { <<"r", "a">>, <<"x">> }

RootValues == { <<"r">>, <<"n">> }

PathDicts ==
    { [k \in {"input_folder"} |-> v] : v \in PathValues }
      \cup { [k \in {"output_folder"} |-> <<"r", "b">>] }

ScopeValues == {"paper", "paper+foam", "foam"}

\* the optional arguments foam_type and paper: left out, or named
FoamArgs == {None, "Foam_Type_2"}

PaperArgs == {None, "Paper 2"}

\* the calls of an earlier session: Foam_Type_1 removed, "Paper 2" created with
\* one foam type and a root folder, paths saved for PDR and Combine, and the
\* All_Results path recorded
EarlierSession(cfg) ==
    set_all_results_path(
      save_module_paths(
        save_module_paths(
          set_paper_root_path(
            set_foam_types_for_paper(
              add_paper(remove_foam_type(cfg, "Foam_Type_1").cfg, "Paper 2").cfg,
              "Paper 2", <<"Foam_Type_2">>).cfg,
            "Paper 2", <<"r">>).cfg,
          "PDR", "Foam_Type_2", [k \in {"input_folder"} |-> <<"r", "a">>],
          "Paper 2", Timestamp(0)).cfg,
        "Combine", None, [k \in {"output_folder"} |-> <<"r", "b">>],
        "Paper 2", Timestamp(0)).cfg,
      <<"r", "a">>, "Paper 2").cfg

\* load_config of the file that session wrote
SavedConfig == EarlierSession(DefaultConfig)

Init ==
    /\ \/ config = DefaultConfig /\ disk = NoDocument
       \/ config = SavedConfig /\ disk = Saved(SavedConfig)
    /\ op = [name |-> "", arg |-> <<>>]
    /\ ret = "None"
    /\ view = EmptyDict
    /\ nops = 0
    /\ IdleNormalize
    /\ IdleMerge
    /\ IdleArchive
    /\ IdleExtra

\* one call: self.config afterwards, the file when save_config ran, the return
Call(name, arg, res) ==
    /\ config' = res.cfg
    /\ disk' = IF res.save THEN Saved(res.cfg) ELSE disk
    /\ op' = [name |-> name, arg |-> arg]
    /\ ret' = res.ret
    /\ view' = res.view
    /\ nops' = nops + 1
    /\ UNCHANGED <<varsN, varsM, varsA, varsX>>

AddPaper ==
    /\ nops < MaxOps
    /\ \E p \in PaperNames : Call("add_paper", <<p>>, add_paper(config, p))

RemovePaper ==
    /\ nops < MaxOps
    /\ \E p \in PaperNames : Call("remove_paper", <<p>>, remove_paper(config, p))

SetCurrentPaper ==
    /\ nops < MaxOps
    /\ \E p \in PaperNames :
          Call("set_current_paper", <<p>>, set_current_paper(config, p))

AddFoamType ==
    /\ nops < MaxOps
    /\ \E f \in FoamNames : Call("add_foam_type", <<f>>, add_foam_type(config, f))

RemoveFoamType ==
    /\ nops < MaxOps
    /\ \E f \in FoamNames : Call("remove_foam_type", <<f>>, remove_foam_type(config, f))

SetCurrentFoamType ==
    /\ nops < MaxOps
    /\ \E f \in FoamNames :
          Call("set_current_foam_type", <<f>>, set_current_foam_type(config, f))

SetFoamTypesForPaper ==
    /\ nops < MaxOps
    /\ \E p \in PaperNames : \E fs \in FoamLists :
          Call("set_foam_types_for_paper", <<p>>, set_foam_types_for_paper(config, p, fs))

SaveModulePaths ==
    /\ nops < MaxOps
    /\ \E m \in ModuleNames : \E f \in FoamArgs : \E p \in PaperArgs :
         \E d \in PathDicts :
          Call("save_module_paths", <<m, f, p, d>>, save_module_paths(config, m, f, d, p, Timestamp(nops + 1)))

SetPaperRootPath ==
    /\ nops < MaxOps
    /\ \E p \in PaperNames : \E v \in RootValues :
          Call("set_paper_root_path", <<p>>, set_paper_root_path(config, p, v))

SetAllResultsPath ==
    /\ nops < MaxOps
    /\ \E p \in PaperArgs : \E v \in PathValues :
          Call("set_all_results_path", <<p>>, set_all_results_path(config, v, p))

SetModuleScope ==
    /\ nops < MaxOps
    /\ \E m \in ModuleNames : \E sc \in ScopeValues :
          Call("set_module_scope", <<m, sc>>, set_module_scope(config, m, sc))

RelocatePaperRoot ==
    /\ nops < MaxOps
    /\ \E p \in PaperNames : \E root \in RootValues \cup {<<>>} :
          Call("relocate_paper_root", <<p, root>>,
               relocate_paper_root(config, p, root))

GetModulePaths ==
    /\ nops < MaxOps
    /\ \E m \in ModuleNames : \E f \in FoamArgs : \E p \in PaperArgs :
          Call("get_module_paths", <<m, f, p>>, get_module_paths(config, m, f, p))

GetSuggestedPaths ==
    /\ nops < MaxOps
    /\ \E m \in ModuleNames \cup {"OC"} : \E f \in FoamArgs : \E p \in PaperArgs :
          Call("get_suggested_paths", <<m, f, p>>,
               get_suggested_paths(config, m, f, p))

GetFoamTypesForPaper ==
    /\ nops < MaxOps
    /\ \E p \in PaperArgs :
          Call("get_foam_types_for_paper", <<p>>,
               ViewResult(config, FALSE,
                          [k \in {"foam_types"} |->
                              get_foam_types_for_paper(config, p)]))

Next ==
    \/ SetModuleScope
    \/ RelocatePaperRoot
    \/ GetModulePaths
    \/ GetSuggestedPaths
    \/ GetFoamTypesForPaper
    \/ AddPaper
    \/ RemovePaper
    \/ SetCurrentPaper
    \/ AddFoamType
    \/ RemoveFoamType
    \/ SetCurrentFoamType
    \/ SetFoamTypesForPaper
    \/ SaveModulePaths
    \/ SetPaperRootPath
    \/ SetAllResultsPath

Spec == Init /\ [][Next]_vars

----------------------------------------------------------------------------
(* Relocating a paper: the store of the earlier session, then paths of     *)
(* every kind saved and papers moved.  "Paper 2" has a root folder,        *)
(* "Paper 1" has none.                                                     *)

\* what a caller may store: folders under and outside <<"r">>, the root itself,
\* paths with "." and "..", the empty string, a value that is not a string
StoredValues ==
    { <<"r", "a">>, <<"r">>, <<"x">>, <<"r", "..", "x">>, <<"r", ".", "a">>,
      <<>>, Number }

StoredDicts ==
    { [k \in {"input_folder"} |-> v] : v \in StoredValues }
      \cup { [k \in {"output_folder"} |-> <<"r", "b">>] }

NewRoots == { <<"n">>, <<"r">>, <<"n", ".", "m">>, <<"r", "a">>, <<>> }

InitRelocate ==
    /\ config = SavedConfig
    /\ disk = Saved(SavedConfig)
    /\ op = [name |-> "", arg |-> <<>>]
    /\ ret = "None"
    /\ view = EmptyDict
    /\ nops = 0
    /\ IdleNormalize
    /\ IdleMerge
    /\ IdleArchive
    /\ IdleExtra

SaveAnyPaths ==
    /\ nops < MaxOps
    /\ \E m \in ModuleNames : \E p \in PaperNames : \E d \in StoredDicts :
          Call("save_module_paths", <<m, None, p, d>>,
               save_module_paths(config, m, None, d, p, Timestamp(nops + 1)))

SetAnyAllResultsPath ==
    /\ nops < MaxOps
    /\ \E p \in PaperNames : \E v \in StoredValues :
          Call("set_all_results_path", <<p>>, set_all_results_path(config, v, p))

RelocateAnyPaper ==
    /\ nops < MaxOps
    /\ \E p \in PaperNames : \E root \in NewRoots :
          Call("relocate_paper_root", <<p, root>>,
               relocate_paper_root(config, p, root))

NextRelocate ==
    \/ SaveAnyPaths
    \/ SetAnyAllResultsPath
    \/ RelocateAnyPaper

SpecRelocate == InitRelocate /\ [][NextRelocate]_vars

----------------------------------------------------------------------------
(* Combine over several foam types.  The DoE and the density workbook are  *)
(* paper-level files with one sheet per foam type: an input set is the     *)
(* foam type with what its two sheets hold (BadFile: the workbook has no   *)
(* sheet of that name).  Row i of a sheet carries the label SheetLabel(i)  *)
(* and the number 10 * i.                                                  *)

MaxFoams == 2

\* a foam-type name longer than a sheet name may be, with a '/' in it
LongName == [i \in 1..(SheetNameLimit + 2) |-> IF i = 3 THEN "/" ELSE "x"]

FoamTypeNames == { <<"P", "E">>, <<"P", "/", "E", ":", "1">>, LongName }

\* the label cell of row i: "A", "AA", ...
SheetLabel(i) == [k \in 1..i |-> "A"]

\* the sheets of lens rows whose data cells are of the kinds given
SheetsOf(kinds, lens) ==
    { [kind |-> "ok", sheet |-> "Sheet1",
       rows |-> [i \in DOMAIN ks |->
                   [label |-> SheetLabel(i), val |-> 10 * i, kind |-> ks[i]]]] :
      ks \in UNION { [1..n -> kinds] : n \in lens } }

DoeSheets == {BadFile} \cup SheetsOf({"num", "blank"}, {MaxRows})

DensitySheets == {BadFile} \cup SheetsOf({"num", "comma", "blank"}, {MaxRows})

InitWorkbook ==
    /\ files = [s \in Sources |-> NoFile]
    /\ foam = ""
    /\ mphase = "select"
    /\ merged = Frame(<<>>, <<>>)
    /\ workbook = NoWorkbook
    /\ foamInputs = <<>>
    /\ IdleNormalize
    /\ IdleArchive
    /\ IdleConfig
    /\ IdleExtra

\* combine_all_data: input_sets[foam_type] = {'doe': ..., 'density': ..., ...}
AddInputSet ==
    /\ mphase = "select"
    /\ Len(foamInputs) < MaxFoams
    /\ \E ft \in FoamTypeNames, doe \in DoeSheets, density \in DensitySheets :
          /\ \A k \in DOMAIN foamInputs : foamInputs[k][1] # ft
          /\ foamInputs' =
                Append(foamInputs,
                       <<ft, [s \in Sources |->
                                IF s = "doe" THEN doe
                                ELSE IF s = "density" THEN density
                                ELSE NoFile]>>)
    /\ UNCHANGED <<files, foam, mphase, merged, workbook, varsN, varsA, varsC, varsX>>

\* combine_all_data -> create_combined_excel(output_path, input_sets)
CombineAll ==
    /\ mphase = "select"
    /\ workbook' = create_combined_excel(foamInputs)
    /\ mphase' = "done"
    /\ UNCHANGED <<files, foam, merged, foamInputs, varsN, varsA, varsC, varsX>>

NextWorkbook ==
    \/ AddInputSet
    \/ CombineAll

SpecWorkbook == InitWorkbook /\ [][NextWorkbook]_vars

----------------------------------------------------------------------------
(* What the run's merge is compared with: the frames the six readers       *)
(* return for the selected files, and the labels those frames carry        *)

Frames == ReadAll(foam, files)

NonEmptySources == {s \in Sources : ~IsEmpty(Frames[s])}

SourceLabels ==
    UNION { {normalize_label(Frames[s].rows[i]["Label"]) : i \in DOMAIN Frames[s].rows} :
            s \in NonEmptySources }

MergedLabels == [i \in DOMAIN merged.rows |-> merged.rows[i]["Label"]]

(* C1: the Label values of the table merge_for_foam returns are exactly    *)
(* the union of the normalised labels of the non-empty source tables, one  *)
(* row per label: none dropped, none invented, none duplicated.            *)
C1_MergeCompleteness ==
    (mphase = "done" /\ ~merged.exc) =>
        /\ Range(MergedLabels) = SourceLabels
        /\ Len(merged.rows) = Cardinality(SourceLabels)

\* two non-empty sources that carry the same label, merged into one row
C1_Witness ==
    /\ mphase = "done"
    /\ Cardinality(NonEmptySources) = 2
    /\ \A s \in NonEmptySources : Len(Frames[s].rows) = 1
    /\ Len(merged.rows) = 1

(* C2: the table merge_for_foam returns and the All_Results table always   *)
(* have exactly the canonical columns in the canonical order, whichever    *)
(* sources are available, no source at all included.                       *)
C2_CanonicalColumns ==
    mphase = "done" =>
        /\ ~merged.exc => merged.columns = BASE_NEW_COLUMN_ORDER
        /\ ~workbook.exc => workbook.all.columns = BASE_NEW_COLUMN_ORDER

\* the columns of the merged table that only source src fills
OwnedColumns(src) ==
    CASE src = "doe" -> Range(DoeMergeColumns) \cup {"Psat (MPa)"}
      [] src = "density" -> Range(DENSITY_DATA_COLUMNS)
      [] src = "pdr" -> Range(PdrMergeColumns)
      [] src = "oc" -> {"OC (%)"}
      [] src = "dsc" -> Range(DscMergeColumns)
      [] src = "sem" -> Range(SemMergeColumns)

(* C3: an unreadable file for one source S never aborts merge_for_foam     *)
(* and never changes what the others contribute: the merged table is the   *)
(* one obtained with S not selected, and the columns S owns are null.      *)
C3_BadSourceIsolated ==
    mphase = "done" =>
        \A S \in Sources :
            files[S].kind = "bad" =>
                /\ ~merged.exc
                /\ merged = merge_for_foam(foam, [files EXCEPT ![S] = NoFile])
                /\ \A i \in DOMAIN merged.rows :
                      \A c \in OwnedColumns(S) : merged.rows[i][c] = NA

\* an unreadable file next to a source that supplies a row
C3_Witness ==
    /\ mphase = "done"
    /\ \E S \in Sources : files[S].kind = "bad"
    /\ Len(merged.rows) >= 1
    /\ \E i \in DOMAIN merged.rows :
          \E c \in Range(merged.columns) \ {"Label", "Polymer"} : merged.rows[i][c] # NA

----------------------------------------------------------------------------
(* C4: normalize_label is idempotent: normalising an already normalised    *)
(* label returns it unchanged, for every input string.                     *)
C4_Idempotent ==
    nstage = "twice" => out2 = out

(* Reference reading of "the last token": token starts are found from the  *)
(* right, without scanning: a run of >= 4 digits starts a token unless it  *)
(* is the "-digits" tail of the token that starts at the run before it.    *)
RECURSIVE RunStart(_, _)
RunStart(s, j) ==
    IF j > 1 /\ IsDigit(s[j - 1]) THEN RunStart(s, j - 1) ELSE j

LongRunAt(s, b) ==
    \A k \in b..(b + 3) : k <= Len(s) /\ IsDigit(s[k])

RECURSIVE IsTail(_, _)
IsTail(s, i) ==
    /\ i > 2
    /\ s[i - 1] = "-"
    /\ IsDigit(s[i - 2])
    /\ LET b == RunStart(s, i - 2)
       IN LongRunAt(s, b) /\ ~IsTail(s, b)

TokenStarts(s) ==
    { i \in 1..Len(s) :
        /\ IsDigit(s[i])
        /\ (i = 1 \/ ~IsDigit(s[i - 1]))
        /\ LongRunAt(s, i)
        /\ ~IsTail(s, i) }

HasDash(t) == \E k \in 1..Len(t) : t[k] = "-"

TokenShape(t) ==
    \E k \in 4..Len(t) :
        /\ \A j \in 1..k : IsDigit(t[j])
        /\ \/ k = Len(t)
           \/ /\ k + 2 <= Len(t)
              /\ t[k + 1] = "-"
              /\ \A j \in (k + 2)..Len(t) : IsDigit(t[j])

\* c is s without surrounding whitespace and without one trailing extension
IsCleaned(s, c) ==
    \E a \in 1..(Len(s) + 1) : \E b \in 0..Len(s) :
        /\ \A k \in 1..Len(s) : (k < a \/ k > b) => IsSpace(s[k])
        /\ a <= b => (~IsSpace(s[a]) /\ ~IsSpace(s[b]))
        /\ a > b => a = b + 1
        /\ LET t == SubSeq(s, a, b)
           IN \/ /\ c = t
                 /\ \A e \in Extensions : ~EndsWithExt(t, e)
              \/ \E e \in Extensions :
                    /\ EndsWithExt(t, e)
                    /\ c = SubSeq(t, 1, Len(t) - Len(e))

(* C5: normalize_label strips surrounding whitespace and one trailing      *)
(* .xlsx/.xls/.csv/.txt (any case); when the result has a run of >= 4      *)
(* digits, optionally followed by "-" and digits, the last such token is   *)
(* returned, otherwise the cleaned string is returned as it is.            *)
C5_LastTokenOrCleaned ==
    nstage # "input" =>
        \E c \in {Clean(raw)} :
            /\ IsCleaned(raw, c)
            /\ LET T == TokenStarts(c)
               IN IF T = {} THEN out = c
                  ELSE LET i == CHOOSE x \in T : \A y \in T : y <= x
                       IN \E e \in i..Len(c) :
                            /\ out = SubSeq(c, i, e)
                            /\ TokenShape(out)
                            /\ e < Len(c) => ~IsDigit(c[e + 1])
                            /\ (e + 2 <= Len(c) /\ ~HasDash(out))
                                  => ~(c[e + 1] = "-" /\ IsDigit(c[e + 2]))

\* an input with an extension and two tokens, normalised to the later token
C5_Witness ==
    /\ nstage = "once"
    /\ \E e \in Extensions : EndsWithExt(Strip(raw), e)
    /\ Cardinality(TokenStarts(Clean(raw))) >= 2
    /\ TokenShape(out)

----------------------------------------------------------------------------
(* C6: after N finished runs "Previous results" holds the N-1 prior        *)
(* outputs, each with the content it was written with, and the output      *)
(* folder holds exactly one All_Results file, the newest.                  *)
C6_PreviousHoldsPrior ==
    (apc = 0 /\ runs >= 1) =>
        /\ \A k \in 1..(runs - 1) : \E n \in FileNames : prevDir[n] = k
        /\ Listing(outDir) = {outName}
        /\ outDir[outName] = runs

(* C7: when a run replaces the All_Results file of the same day, the       *)
(* content that file had just before is still in "Previous results" once   *)
(* the run has finished.                                                   *)
C7_SameDayVersionKept ==
    (apc = 0 /\ replaced # NoContent) =>
        \E n \in FileNames : prevDir[n] = replaced

\* a step that puts new content into a file of the output folder
IsWrite ==
    \E n \in FileNames : outDir'[n] # NoContent /\ outDir'[n] # outDir[n]

\* a step that puts content into "Previous results" and takes no file out of
\* the output folder
IsCopy ==
    /\ outDir' = outDir
    /\ prevDir' # prevDir

(* C8: in every run the order is rotate, write, copy: when the new file is *)
(* written no other All_Results file is left in the output folder, and the *)
(* file copied into "Previous results" is the completely written output of *)
(* this run.                                                               *)
C8_RotateWriteCopy ==
    [][ /\ IsWrite => Listing(outDir) \ {outName} = {}
        /\ IsCopy => /\ outDir[outName] = runs + 1
                     /\ prevDir' = [prevDir EXCEPT ![outName] = outDir[outName]] ]_vars

\* a finished run that moved the older file away, wrote its own and copied it
C8_Witness ==
    /\ apc = 0
    /\ runs >= 2
    /\ outDir[outName] = runs
    /\ prevDir[outName] = runs
    /\ \E d \in Dates : \E t \in Times :
          d < today /\ prevDir[<<d, t>>] = runs - 1

\* a step that takes the file n out of the output folder
IsMoveOf(n) == Exists(outDir, n) /\ ~Exists(outDir', n)

(* C9: when the rotation moves a file whose name is already taken in       *)
(* "Previous results", the file is stored under that name with an HHMMSS   *)
(* suffix, and the move overwrites or loses no file that was there.        *)
C9_CollisionSuffixed ==
    [][ \A n \in FileNames :
          IsMoveOf(n) =>
            /\ \A m \in FileNames : Exists(prevDir, m) => prevDir'[m] = prevDir[m]
            /\ \E m \in FileNames :
                  /\ ~Exists(prevDir, m)
                  /\ prevDir'[m] = outDir[n]
                  /\ IF Exists(prevDir, n)
                     THEN m # n /\ \E t \in Times : m = Append(n, t)
                     ELSE m = n ]_vars

\* the rotation has just stored a file next to the one that had its name
C9_Witness ==
    /\ AtStep("rotate")
    /\ \E d \in Dates : \E t \in Times :
          /\ Exists(prevDir, DatedName(d))
          /\ Exists(prevDir, <<d, t>>)
          /\ ~Exists(outDir, DatedName(d))

----------------------------------------------------------------------------
\* the call made by this step is name(x) and x is the only entry of list
LastOneCall(name, list) ==
    /\ op'.name = name
    /\ Len(list) = 1
    /\ op'.arg = <<list[1]>>

(* C10: remove_paper on the only remaining paper and remove_foam_type on   *)
(* the only remaining global foam type return False and leave the whole    *)
(* configuration document unchanged, in memory and in the config file.     *)
C10_LastOneKept ==
    [][ (LastOneCall("remove_paper", config.papers)
           \/ LastOneCall("remove_foam_type", config.foam_types))
        => (ret' = "False" /\ config' = config /\ disk' = disk) ]_vars

\* remove_foam_type refused for the last foam type, with paths saved before
C10_Witness ==
    /\ op.name = "remove_foam_type"
    /\ ret = "False"
    /\ config.foam_types = op.arg
    /\ config.current_foam_type = op.arg[1]
    /\ DOMAIN config.module_paths # {}
    /\ disk = Saved(config)

----------------------------------------------------------------------------
\* the methods that change the configuration
MutatingOps ==
    { "add_paper", "remove_paper", "set_current_paper", "add_foam_type",
      "remove_foam_type", "set_current_foam_type", "set_foam_types_for_paper",
      "set_module_scope", "save_module_paths", "set_paper_root_path",
      "relocate_paper_root", "set_all_results_path" }

(* C11: when remove_foam_type(f) has returned True, f is in no paper's     *)
(* foam list and no module_paths[module][paper] has an entry keyed f, for  *)
(* every module and paper, and the config file holds that same document:   *)
(* all of it done by the one call, whatever calls came before.             *)
C11_FoamPurged ==
    (op.name = "remove_foam_type" /\ ret = "True") =>
        /\ \A p \in DOMAIN config.paper_foam_types :
              ~Contains(config.paper_foam_types[p], op.arg[1])
        /\ \A m \in DOMAIN config.module_paths :
              \A p \in DOMAIN config.module_paths[m] :
                 op.arg[1] \notin DOMAIN config.module_paths[m][p]
        /\ disk = Saved(config)

\* a foam type removed whose entry was the last one a paper had for a module
\* (the paper's entry went with it) while another paper still lists foam types
C11_Witness ==
    /\ op.name = "remove_foam_type"
    /\ ret = "True"
    /\ \E m \in DOMAIN config.module_paths : config.module_paths[m] = EmptyDict
    /\ \E p \in DOMAIN config.paper_foam_types : config.paper_foam_types[p] # <<>>

\* what the store holds for one paper
PaperEntries(cfg, paper) ==
    [ module_paths |->
          [m \in {x \in DOMAIN cfg.module_paths : paper \in DOMAIN cfg.module_paths[x]}
              |-> cfg.module_paths[m][paper]],
      foam_types |-> [q \in DOMAIN cfg.paper_foam_types \cap {paper}
                        |-> cfg.paper_foam_types[q]],
      root |-> [q \in DOMAIN cfg.paper_root_paths \cap {paper}
                  |-> cfg.paper_root_paths[q]],
      all_results |-> [q \in DOMAIN cfg.all_results_paths \cap {paper}
                         |-> cfg.all_results_paths[q]] ]

\* the store holds nothing for the paper
NoEntries ==
    [ module_paths |-> EmptyDict, foam_types |-> EmptyDict,
      root |-> EmptyDict, all_results |-> EmptyDict ]

(* C12: a remove_paper(p) that returns True leaves no entry for p in       *)
(* module_paths (any module), paper_foam_types, paper_root_paths and       *)
(* all_results_paths, and leaves the entries of every other paper as they  *)
(* were.                                                                   *)
C12_PaperPurged ==
    [][ (op'.name = "remove_paper" /\ ret' = "True") =>
          /\ PaperEntries(config', op'.arg[1]) = NoEntries
          /\ \A q \in PaperNames \ {op'.arg[1]} :
                PaperEntries(config', q) = PaperEntries(config, q) ]_vars

\* "Paper 2" removed and its module paths with it, while "Paper 1" keeps its
\* entries
C12_Witness ==
    /\ op.name = "remove_paper"
    /\ op.arg = <<"Paper 2">>
    /\ ret = "True"
    /\ config.papers = <<"Paper 1">>
    /\ PaperEntries(config, "Paper 1") # NoEntries
    /\ \E m \in DOMAIN config.module_paths : config.module_paths[m] = EmptyDict

(* C13: write-through: in every state a mutating method has just returned  *)
(* in (add/remove paper, add/remove foam type, set current paper or foam   *)
(* type, set foam types for a paper, set module scope, save module paths,  *)
(* set or relocate paper root, set all-results path), the document of the  *)
(* config file equals self.config, whatever calls came before (a config    *)
(* file not written yet counts as the default document).                   *)
C13_WriteThrough ==
    (op.name \in MutatingOps /\ ret \notin {"ValueError", "IndexError"})
        => disk.doc = config

\* the dict get_module_paths returns for the module and paper of the call
\* arguments a and the foam type f
GotPaths(cfg, a, f) == get_module_paths(cfg, a[1], f, a[3]).view

\* the entry the arguments a of a save_module_paths call address
EntryOf(cfg, a) ==
    StoredEntry(cfg, a[1], PaperOr(cfg, a[3]), FoamKey(cfg, a[1], a[2]))

\* the dict d has the value v under the key k
HasValue(d, k, v) == k \in DOMAIN d /\ d[k] = v

(* C14: after save_module_paths(module, foam, paths, paper) the dict       *)
(* get_module_paths returns for the same arguments has every key of paths  *)
(* at its new value, every key stored before and absent from paths at its  *)
(* old value, and last_used at the time of this call; for a paper-scope    *)
(* module it is the same dict whatever foam type is passed.                *)
C14_SaveThenGet ==
    [][ op'.name = "save_module_paths" =>
          /\ \A k \in DOMAIN op'.arg[4] :
                HasValue(GotPaths(config', op'.arg, op'.arg[2]), k, op'.arg[4][k])
          /\ \A k \in DOMAIN EntryOf(config, op'.arg)
                        \ (DOMAIN op'.arg[4] \cup {"last_used"}) :
                HasValue(GotPaths(config', op'.arg, op'.arg[2]), k,
                         EntryOf(config, op'.arg)[k])
          /\ HasValue(GotPaths(config', op'.arg, op'.arg[2]), "last_used",
                      Timestamp(nops'))
          /\ get_module_scope(config, op'.arg[1]) = "paper" =>
                \A f \in FoamNames \cup {None} :
                   GotPaths(config', op'.arg, f)
                      = GotPaths(config', op'.arg, op'.arg[2]) ]_vars

\* paths saved into an entry that holds another key from an earlier save
C14_Witness ==
    /\ op.name = "save_module_paths"
    /\ \E k \in DOMAIN EntryOf(config, op.arg) :
          k \notin DOMAIN op.arg[4] \cup {"last_used"}

(* C15: add_foam_type(f) changes the result of get_foam_types_for_paper(p) *)
(* for no paper p of the store: a foam type added to the global registry   *)
(* is attached to no paper.                                                *)
C15_AssociationIndependent ==
    [][ op'.name = "add_foam_type" =>
          \A p \in PaperNames :
             Contains(config.papers, p) =>
                get_foam_types_for_paper(config', p)
                   = get_foam_types_for_paper(config, p) ]_vars

\* a is a prefix of b: the path b is the folder a or lies under it
IsPrefix(a, b) == Len(a) <= Len(b) /\ SubSeq(b, 1, Len(a)) = a

\* the entry get_module_paths reads for the arguments a: the one stored under
\* the scope key or, for a paper-scope module that has none, the one stored
\* under the current foam type
SavedFor(cfg, a) ==
    IF EntryOf(cfg, a) # EmptyDict THEN EntryOf(cfg, a)
    ELSE IF get_module_scope(cfg, a[1]) = "paper"
    THEN StoredEntry(cfg, a[1], PaperOr(cfg, a[3]), cfg.current_foam_type)
    ELSE EmptyDict

\* the foam folder the conventions of a foam-level module start from
FoamFolder(cfg, a) ==
    IF get_module_scope(cfg, a[1]) = "paper+foam" /\ a[2] # None
    THEN a[2] ELSE cfg.current_foam_type

\* the suggestions v follow the folder conventions under root
Conventional(cfg, a, root, v) ==
    /\ \A k \in DOMAIN v : IsPrefix(root, v[k])
    /\ {"input_folder", "output_folder"} \subseteq DOMAIN v
    /\ a[1] = "PDR" =>
          /\ v["input_folder"] = root \o <<FoamFolder(cfg, a), "PDR", "Input">>
          /\ v["output_folder"] = root \o <<FoamFolder(cfg, a), "PDR", "Output">>
    /\ a[1] = "OC" =>
          /\ v["input_folder"]
                = root \o <<FoamFolder(cfg, a), "Open-cell content", "Input">>
          /\ v["output_folder"]
                = root \o <<FoamFolder(cfg, a), "Open-cell content", "Output">>
          /\ HasValue(v, "density_file", root \o <<"Density.xlsx">>)
    /\ a[1] = "Combine" => v["output_folder"] = root \o <<"Results">>

(* C16: get_suggested_paths(module, foam, paper) returns the saved entry   *)
(* when there is one; when there is none it returns an empty dict if the   *)
(* paper has no root path recorded, and otherwise paths that all lie under *)
(* the recorded root path and follow the folder conventions of the module  *)
(* (<foam>/PDR/Input, <foam>/Open-cell content/Input, Results, ...).       *)
C16_SuggestedPaths ==
    [][ op'.name = "get_suggested_paths" =>
          IF SavedFor(config, op'.arg) # EmptyDict
          THEN view' = SavedFor(config, op'.arg)
          ELSE IF PaperOr(config, op'.arg[3]) \notin DOMAIN config.paper_root_paths
          THEN view' = EmptyDict
          ELSE Conventional(config, op'.arg,
                            config.paper_root_paths[PaperOr(config, op'.arg[3])],
                            view') ]_vars

\* suggestions made up for OC from the root path of a paper without saved
\* OC paths
C16_Witness ==
    /\ op.name = "get_suggested_paths"
    /\ op.arg[1] = "OC"
    /\ "density_file" \in DOMAIN view
    /\ EntryOf(config, op.arg) = EmptyDict

----------------------------------------------------------------------------
\* <<module, foam_key, key>> of every field stored for the paper
EveryField(mp, paper) ==
    UNION { UNION { {<<m, k, key>> : key \in DOMAIN mp[m][paper][k]} :
                    k \in DOMAIN mp[m][paper] } :
            m \in {x \in DOMAIN mp : paper \in DOMAIN mp[x]} }

FieldValue(mp, paper, t) == mp[t[1]][paper][t[2]][t[3]]

\* the string path value lies in the folder old or under it
IsUnder(old, value) == value # <<>> /\ IsPrefix(old, Normpath(value))

\* a string path after the move from old to new: the same relative path
\* under new when it was under old, itself otherwise
Moved(value, old, new) ==
    IF IsUnder(old, value)
    THEN new \o SubSeq(Normpath(value), Len(old) + 1, Len(Normpath(value)))
    ELSE value

\* the paper's stored values after the move are as Moved says, last_used and
\* non-string fields are as before, and so is every other paper
PathsMoved(cfg, cfg2, paper, old, new) ==
    /\ EveryField(cfg2.module_paths, paper) = EveryField(cfg.module_paths, paper)
    /\ \A t \in EveryField(cfg.module_paths, paper) :
          FieldValue(cfg2.module_paths, paper, t)
            = IF IsPathField(t[3], FieldValue(cfg.module_paths, paper, t))
              THEN Moved(FieldValue(cfg.module_paths, paper, t), old, new)
              ELSE FieldValue(cfg.module_paths, paper, t)
    /\ DOMAIN cfg2.all_results_paths = DOMAIN cfg.all_results_paths
    /\ paper \in DOMAIN cfg.all_results_paths =>
          cfg2.all_results_paths[paper]
            = IF IsStr(cfg.all_results_paths[paper])
              THEN Moved(cfg.all_results_paths[paper], old, new)
              ELSE cfg.all_results_paths[paper]
    /\ \A q \in PaperNames \ {paper} : PaperEntries(cfg2, q) = PaperEntries(cfg, q)

\* the path fields of the paper in module_paths whose value changed / did not
ChangedFields(cfg, cfg2, paper) ==
    {t \in PaperFields(cfg.module_paths, paper) :
        FieldValue(cfg2.module_paths, paper, t) # FieldValue(cfg.module_paths, paper, t)}

SameFields(cfg, cfg2, paper) ==
    PaperFields(cfg.module_paths, paper) \ ChangedFields(cfg, cfg2, paper)

\* 1 when the paper has a string all-results path that changed (changed =
\* TRUE) or did not (changed = FALSE), else 0
AllResultsIs(cfg, cfg2, paper, changed) ==
    IF /\ paper \in DOMAIN cfg.all_results_paths
       /\ IsStr(cfg.all_results_paths[paper])
       /\ (cfg2.all_results_paths[paper] # cfg.all_results_paths[paper]) = changed
    THEN 1 ELSE 0

\* the same, an empty all-results path left out
AllResultsSet(cfg, cfg2, paper, changed) ==
    IF paper \in DOMAIN cfg.all_results_paths
       /\ cfg.all_results_paths[paper] = <<>>
    THEN 0 ELSE AllResultsIs(cfg, cfg2, paper, changed)

\* the root the paper had: <<>> when none was recorded
OldRoot(cfg, paper) == Normpath(RecordedRoot(cfg.paper_root_paths, paper))

\* a relocate_paper_root call has just returned its report
Relocated == op'.name = "relocate_paper_root" /\ ret' = "dict"

(* C17 as stated: after relocate_paper_root(paper, newRoot) every stored   *)
(* string path of the paper (module paths, all-results path) that was      *)
(* under the old root is the same relative path under newRoot, every other *)
(* path, last_used and non-string field is unchanged, and 'updated' and    *)
(* 'skipped' are the numbers of remapped and of untouched path fields.     *)
C17_RelocateCounts ==
    [][ Relocated =>
          /\ RecordedRoot(config.paper_root_paths, op'.arg[1]) # <<>> =>
                PathsMoved(config, config', op'.arg[1],
                           OldRoot(config, op'.arg[1]), Normpath(op'.arg[2]))
          /\ view'.updated
                = Cardinality(ChangedFields(config, config', op'.arg[1]))
                    + AllResultsIs(config, config', op'.arg[1], TRUE)
          /\ view'.skipped
                = Cardinality(SameFields(config, config', op'.arg[1]))
                    + AllResultsIs(config, config', op'.arg[1], FALSE) ]_vars

(* C17 amended: when the paper had a root path recorded, the paths move as *)
(* stated, 'updated' is the number of path fields whose value changed and  *)
(* 'skipped' the number of string path fields left as they were, an empty  *)
(* all-results path not counted; when the paper had no root path recorded, *)
(* no stored path changes and both counts are 0.                           *)
C17_RelocateRemaps ==
    [][ Relocated =>
          /\ config'.paper_root_paths[op'.arg[1]] = Normpath(op'.arg[2])
          /\ disk' = Saved(config')
          /\ IF RecordedRoot(config.paper_root_paths, op'.arg[1]) # <<>>
             THEN /\ PathsMoved(config, config', op'.arg[1],
                                OldRoot(config, op'.arg[1]), Normpath(op'.arg[2]))
                  /\ view'.updated
                        = Cardinality(ChangedFields(config, config', op'.arg[1]))
                            + AllResultsSet(config, config', op'.arg[1], TRUE)
                  /\ view'.skipped
                        = Cardinality(SameFields(config, config', op'.arg[1]))
                            + AllResultsSet(config, config', op'.arg[1], FALSE)
             ELSE /\ config'.module_paths = config.module_paths
                  /\ config'.all_results_paths = config.all_results_paths
                  /\ view'.updated = 0
                  /\ view'.skipped = 0 ]_vars

\* a move that remapped a path under the old root and skipped one outside it
C17_Witness ==
    /\ op.name = "relocate_paper_root"
    /\ ret = "dict"
    /\ view.updated >= 2
    /\ view.skipped >= 1
    /\ view.old_root = <<"r">>
    /\ view.new_root = <<"n", "m">>
    /\ \E t \in PaperFields(config.module_paths, op.arg[1]) :
          FieldValue(config.module_paths, op.arg[1], t) = <<"x">>

----------------------------------------------------------------------------
\* create_combined_excel has returned a workbook
Written == mphase = "done" /\ ~workbook.exc

\* Psat (MPa) is P CO2 (bar) / 10 in the row when P CO2 (bar) is not null
PsatOk(row) ==
    row["P CO2 (bar)"] # NA =>
        /\ IsNum(row["P CO2 (bar)"])
        /\ IsNum(row["Psat (MPa)"])
        /\ row["Psat (MPa)"][2] * 10 = row["P CO2 (bar)"][2]

PsatDerived(df) == \A i \in DOMAIN df.rows : PsatOk(df.rows[i])

----------------------------------------------------------------------------
\* the number a non-null density cell holds, written with a point or a comma
ValueOf(cell) == cell[2]

\* the kg/m^3 cell of the row is 1000 times its g/cm^3 cell when that is not null
KgOk(row, g, kg) ==
    row[g] # NA => IsNum(row[kg]) /\ row[kg][2] = ValueOf(row[g]) * 1000

KgDerived(df) ==
    \A i \in DOMAIN df.rows :
        /\ KgOk(df.rows[i], "rho foam (g/cm^3)", "rho foam (kg/m^3)")
        /\ KgOk(df.rows[i], "Desvest rho foam (g/cm^3)", "Desvest rho foam (kg/m^3)")

(* C19: in every row of every output sheet (per-foam sheet and All_Results) *)
(* where the g/cm^3 foam density is not null, the kg/m^3 column is the      *)
(* g/cm^3 value times 1000, and likewise for the standard-deviation pair;   *)
(* values written with a decimal comma included, All_Results deriving as    *)
(* the per-foam merge does.                                                 *)
C19_KgFromG ==
    Written =>
        /\ \A k \in DOMAIN workbook.sheets : KgDerived(workbook.sheets[k].table)
        /\ KgDerived(workbook.all)

----------------------------------------------------------------------------
\* the characters a sheet name may not hold
IllegalChars == {":", "\\", "/", "?", "*", "[", "]"}

\* the name with every illegal character replaced by '_', cut to 31 characters
SanitizedName(s) ==
    [i \in 1..(IF Len(s) < 31 THEN Len(s) ELSE 31) |->
        IF s[i] \in IllegalChars THEN "_" ELSE s[i]]

\* the rows of All_Results that carry the foam type in Polymer
RowsOf(df, ft) == {j \in DOMAIN df.rows : df.rows[j]["Polymer"] = Str(ft)}

\* the workbook has the sheet of the foam type under its sanitised name, and
\* All_Results has the rows of its merged table, Polymer set to the foam type
HasSheet(w, ft, table) ==
    /\ \E s \in DOMAIN w.sheets :
          /\ w.sheets[s].name = SanitizedName(ft)
          /\ w.sheets[s].table = table
    /\ Cardinality(RowsOf(w.all, ft)) = Len(table.rows)
    /\ \A i \in DOMAIN table.rows :
          \E j \in RowsOf(w.all, ft) :
              w.all.rows[j]["Label"] = table.rows[i]["Label"]

(* C20: for every foam type with a non-empty merged table the output       *)
(* workbook has a dedicated sheet whose name is the foam-type name with    *)
(* each of the characters : \ / ? * [ ] replaced by '_' and cut to 31      *)
(* characters, and the rows of that foam type are in All_Results with      *)
(* Polymer set to the foam type.                                           *)
C20_SheetPerFoam ==
    Written =>
        \A k \in DOMAIN foamInputs :
            ~IsEmpty(merge_for_foam(foamInputs[k][1], foamInputs[k][2])) =>
                HasSheet(workbook, foamInputs[k][1],
                         merge_for_foam(foamInputs[k][1], foamInputs[k][2]))

----------------------------------------------------------------------------
\* a get_module_paths call on a module of scope "paper" has just returned
PaperScopeGet ==
    /\ op'.name = "get_module_paths"
    /\ get_module_scope(config, op'.arg[1]) = "paper"

\* the foam types under whose key the paper has a non-empty entry for the module
LegacyKeys(cfg, module, paper) ==
    {k \in FoamNames : StoredEntry(cfg, module, paper, k) # EmptyDict}

\* every entry stored for any module, paper and key is as it was, and so is
\* the config file
DataKept ==
    /\ disk' = disk
    /\ \A m \in ModuleNames : \A p \in PaperNames : \A k \in FoamNames \cup {GLOBAL_KEY} :
          StoredEntry(config', m, p, k) = StoredEntry(config, m, p, k)

(* C21 as stated: for a paper-scope module get_module_paths returns the    *)
(* sentinel-key entry of the paper whenever that is non-empty; when it is  *)
(* empty and a non-empty legacy entry is stored under a foam-type key of   *)
(* the paper it returns a legacy entry; the stored data is not changed.    *)
C21_LegacyFallback ==
    [][ PaperScopeGet =>
          /\ StoredEntry(config, op'.arg[1], PaperOr(config, op'.arg[3]), GLOBAL_KEY)
                # EmptyDict =>
                view' = StoredEntry(config, op'.arg[1],
                                    PaperOr(config, op'.arg[3]), GLOBAL_KEY)
          /\ ( /\ StoredEntry(config, op'.arg[1], PaperOr(config, op'.arg[3]),
                              GLOBAL_KEY) = EmptyDict
               /\ LegacyKeys(config, op'.arg[1], PaperOr(config, op'.arg[3])) # {} ) =>
                \E k \in LegacyKeys(config, op'.arg[1], PaperOr(config, op'.arg[3])) :
                    view' = StoredEntry(config, op'.arg[1],
                                        PaperOr(config, op'.arg[3]), k)
          /\ DataKept ]_vars

(* C21 amended: for a paper-scope module get_module_paths returns the      *)
(* sentinel-key entry of the paper whenever that is non-empty; when it is  *)
(* empty it returns the entry stored under the key of the current foam     *)
(* type (empty when there is none), whatever other foam-type keys hold;    *)
(* the stored data is not changed.                                         *)
C21_CurrentLegacy ==
    [][ PaperScopeGet =>
          /\ view' =
               IF StoredEntry(config, op'.arg[1], PaperOr(config, op'.arg[3]),
                              GLOBAL_KEY) # EmptyDict
               THEN StoredEntry(config, op'.arg[1], PaperOr(config, op'.arg[3]),
                                GLOBAL_KEY)
               ELSE StoredEntry(config, op'.arg[1], PaperOr(config, op'.arg[3]),
                                config.current_foam_type)
          /\ DataKept ]_vars

\* a paper-scope module whose sentinel entry is empty got the entry stored
\* under the current foam type
C21_Witness ==
    /\ op.name = "get_module_paths"
    /\ get_module_scope(config, op.arg[1]) = "paper"
    /\ view # EmptyDict
    /\ StoredEntry(config, op.arg[1], PaperOr(config, op.arg[3]), GLOBAL_KEY) = EmptyDict
    /\ view = StoredEntry(config, op.arg[1], PaperOr(config, op.arg[3]),
                          config.current_foam_type)

----------------------------------------------------------------------------
\* the normalized label of row i of the DoE sheet
DoeLabel(file, i) == Strip(normalize_label(file.rows[i].label))

\* the sheet rows the DoE table is to hold: the label cell not blank, and no
\* earlier such row with the same normalized label
DoeKept(file) ==
    {i \in DOMAIN file.rows :
        /\ file.rows[i].label # <<>>
        /\ \A j \in 1..(i - 1) :
              file.rows[j].label = <<>> \/ DoeLabel(file, j) # DoeLabel(file, i)}

\* the table has exactly the rows of the sheet numbered in I, in sheet order
HoldsRows(df, file, I) ==
    /\ [k \in DOMAIN df.rows |-> df.rows[k]["Label"]]
          = PickIdx([i \in DOMAIN file.rows |-> DoeLabel(file, i)], I, 1)
    /\ [k \in DOMAIN df.rows |-> df.rows[k]["m(g)"]]
          = PickIdx([i \in DOMAIN file.rows |-> Num(file.rows[i].val)], I, 1)

(* C22: the table the DoE reader returns has no row for a blank label cell *)
(* and no normalized label twice; of the sheet rows that share a           *)
(* normalized label it holds the first one in sheet order.                 *)
C22_DoeFirstKept ==
    files["doe"].kind = "ok" =>
        HoldsRows(read_doe_pos(files["doe"], foam), files["doe"],
                  DoeKept(files["doe"]))

----------------------------------------------------------------------------
\* every row of the table has the number of its sheet row in each column of cols
ReadsColumns(df, file, cols) ==
    /\ Len(df.rows) = Len(file.rows)
    /\ \A c \in Range(cols) :
          /\ HasColumn(df, c)
          /\ \A i \in DOMAIN df.rows : df.rows[i][c] = Num(file.rows[i].val)

\* the table the DSC reader returns for the selected DSC workbook
DscFrame == read_dsc_pos(files["dsc"])

\* the DSC workbook is readable and has the sheet named, or neither (name = "")
DscSheetIs(name) ==
    /\ files["dsc"].kind = "ok"
    /\ IF name = "" THEN files["dsc"].sheet \notin {"dsc_results", "dsc_tg_results"}
       ELSE files["dsc"].sheet = name

(* C23: the DSC reader reads crystallinity and Tm from a sheet named       *)
(* dsc_results and Tg from a sheet named dsc_tg_results; for a workbook    *)
(* with neither sheet it returns an empty frame, so that the workbook      *)
(* contributes no label and no value to the merge.                         *)
C23_DscSheets ==
    /\ DscSheetIs("dsc_results") =>
          ReadsColumns(DscFrame, files["dsc"], <<"DSC Xc (%)", "DSC Tm (C)">>)
    /\ DscSheetIs("dsc_tg_results") =>
          ReadsColumns(DscFrame, files["dsc"], <<"DSC Tg (C)">>)
    /\ DscSheetIs("") =>
          /\ IsEmpty(DscFrame)
          /\ mphase = "done" =>
                merged = merge_for_foam(foam, [files EXCEPT !["dsc"] = NoFile])

----------------------------------------------------------------------------
(* C27: after any sequence of add/remove paper, add/remove foam type,      *)
(* set_current_paper and set_current_foam_type from the default            *)
(* configuration, current_paper is in papers and current_foam_type is in   *)
(* the global foam_types list; neither list is ever empty.                 *)
C27_CurrentIsMember ==
    /\ Contains(config.papers, config.current_paper)
    /\ Contains(config.foam_types, config.current_foam_type)

\* the current foam type and the current paper have both been removed, and
\* the selection moved to the head of what is left
C27_Witness ==
    /\ op.name = "remove_paper"
    /\ ret = "True"
    /\ op.arg = <<"Paper 1">>
    /\ config.papers = <<"Paper 2">>
    /\ config.current_paper = "Paper 2"
    /\ ~Contains(config.foam_types, "Foam_Type_1")
    /\ config.current_foam_type = "Foam_Type_2"
    /\ disk.doc = config

----------------------------------------------------------------------------
\* is_foam_type_in_use: the foam type is in the association of an active paper
is_foam_type_in_use(cfg, foam_type) ==
    \E paper \in DOMAIN cfg.paper_foam_types :
        /\ Contains(cfg.papers, paper)
        /\ Contains(cfg.paper_foam_types[paper], foam_type)

\* get_unused_foam_types: the global list without the foam types in use
get_unused_foam_types(cfg) ==
    SelectSeq(cfg.foam_types, LAMBDA ft : ~is_foam_type_in_use(cfg, ft))

(* C28: a foam type that get_foam_types_for_paper(p) returns for a paper p *)
(* of the papers list is reported in use by is_foam_type_in_use and is not *)
(* listed by get_unused_foam_types.                                        *)
C28_ShownIsInUse ==
    \A p \in Range(config.papers) :
        \A ft \in Range(get_foam_types_for_paper(config, p)) :
            /\ is_foam_type_in_use(config, ft)
            /\ ~Contains(get_unused_foam_types(config), ft)

----------------------------------------------------------------------------
(* HistogramCombinerModule.find_and_extract_histogram_data: the choice of  *)
(* the sheet. Names are sequences of characters in which the word          *)
(* "histogram" is one element: the code only ever matches it whole, and no *)
(* other character of the names below is one of its letters.               *)

\* str.upper()
UpperC(c) ==
    CASE c = "histogram" -> "HISTOGRAM"
      [] c = "Histogram" -> "HISTOGRAM"
      [] c = "b" -> "B"
      [] OTHER -> c

UpperStr(s) == [i \in 1..Len(s) |-> UpperC(s[i])]

\* the class [\s_-]
IsHistSep(c) == IsSpace(c) \/ c \in {"_", "-"}

RECURSIVE SkipSeps(_)
SkipSeps(s) ==
    IF s # <<>> /\ IsHistSep(Head(s)) THEN SkipSeps(Tail(s)) ELSE s

\* re.sub(r"HISTOGRAM[\s_-]*", "HISTOGRAM", s)
RECURSIVE CollapseHistogram(_)
CollapseHistogram(s) ==
    IF s = <<>> THEN <<>>
    ELSE IF Head(s) = "HISTOGRAM"
         THEN <<"HISTOGRAM">> \o CollapseHistogram(SkipSeps(Tail(s)))
         ELSE <<Head(s)>> \o CollapseHistogram(Tail(s))

IsBlank(c) == c \in {" ", "_"}

\* re.sub(r"[ _]", "", s)
DropBlanks(s) == SelectSeq(s, LAMBDA c : ~IsBlank(c))

canonical_histogram_key(value) ==
    DropBlanks(CollapseHistogram(UpperStr(Strip(value))))

canonical_label_key(value) == DropBlanks(UpperStr(Strip(value)))

\* end of the match of \d+(?:-\d+)? whose first digit run ends at e
TokenEnd(s, e) ==
    IF e + 2 <= Len(s) /\ s[e + 1] = "-" /\ IsDigit(s[e + 2])
    THEN DigitRunEnd(s, e + 2)
    ELSE e

\* re.findall(r"\d+(?:-\d+)?", value) from position i on; e is the end of the
\* digit run that starts at i
RECURSIVE LabelTokens(_, _)
LabelTokensAt(s, i, e) ==
    IF e < i THEN LabelTokens(s, i + 1)
    ELSE <<SubSeq(s, i, TokenEnd(s, e))>> \o LabelTokens(s, TokenEnd(s, e) + 1)

LabelTokens(s, i) ==
    IF i > Len(s) THEN <<>> ELSE LabelTokensAt(s, i, DigitRunEnd(s, i))

extract_label_tokens(value) == LabelTokens(value, 1)

\* "tokens[0] if tokens else ''"
primary_label_token(value) ==
    IF extract_label_tokens(value) # <<>> THEN extract_label_tokens(value)[1]
    ELSE <<>>

\* s.rfind("HISTOGRAM"), 0 for -1
RFindHistogram(s) ==
    IF \E i \in DOMAIN s : s[i] = "HISTOGRAM"
    THEN CHOOSE i \in DOMAIN s :
            /\ s[i] = "HISTOGRAM"
            /\ \A j \in DOMAIN s : s[j] = "HISTOGRAM" => j <= i
    ELSE 0

\* s[idx + len("HISTOGRAM"):] if idx != -1 else s
AfterHistogram(s, idx) == SubSeq(s, idx + 1, Len(s))

\* suffix of the loop: what follows the last HISTOGRAM of the canonical key
KeySuffix(sn) ==
    AfterHistogram(canonical_histogram_key(sn),
                   RFindHistogram(canonical_histogram_key(sn)))

\* suffix_raw of the loop: what follows the last HISTOGRAM of the name as written
RawSuffix(sn) == AfterHistogram(sn, RFindHistogram(UpperStr(sn)))

\* expected = f"histogram_{label}"
ExpectedName(label) == <<"histogram", "_">> \o label

StartsWith(s, prefix) ==
    Len(s) >= Len(prefix) /\ SubSeq(s, 1, Len(prefix)) = prefix

\* str.isdigit(): every character a digit, and at least one
IsDigitStr(s) == s # <<>> /\ \A i \in DOMAIN s : IsDigit(s[i])

NotDash(c) == c # "-"

\* the two "continue" of the prefix branch: a "-<digits>" remainder, or a
\* remainder that starts with a digit, for a label without a hyphen
SkipsRemainder(remainder, label) ==
    /\ remainder # <<>>
    /\ ~HasDash(label)
    /\ \/ remainder[1] = "-" /\ IsDigitStr(SelectSeq(Tail(remainder), NotDash))
       \/ IsDigit(remainder[1])

\* the branch of the loop body a sheet name takes
PrefixBranch(suffix, label) ==
    IF SkipsRemainder(SubSeq(suffix, Len(canonical_label_key(label)) + 1, Len(suffix)),
                      label)
    THEN "skip"
    ELSE "prefix"

SheetBranch(sn, label) ==
    IF canonical_histogram_key(sn) = canonical_histogram_key(ExpectedName(label))
    THEN "exact"
    ELSE IF KeySuffix(sn) = canonical_label_key(label) THEN "suffix"
    ELSE IF StartsWith(KeySuffix(sn), canonical_label_key(label))
            /\ canonical_label_key(label) # <<>>
    THEN PrefixBranch(KeySuffix(sn), label)
    ELSE IF primary_label_token(label) # <<>>
            /\ Contains(extract_label_tokens(RawSuffix(sn)), primary_label_token(label))
    THEN "token"
    ELSE IF primary_label_token(label) # <<>>
            /\ Contains(extract_label_tokens(sn), primary_label_token(label))
    THEN "sheet_token"
    ELSE IF canonical_label_key(sn) = canonical_label_key(label) THEN "label_only"
    ELSE "none"

NoCandidates ==
    [target |-> NoSheet, loose_candidate |-> NoSheet, label_only_candidate |-> NoSheet]

\* one pass of "for sn in sheet_names" over a sheet that takes branch b
LoopBody(st, sn, b) ==
    IF b \in {"exact", "suffix", "token"} THEN [st EXCEPT !.target = sn]
    ELSE IF b \in {"prefix", "sheet_token"} THEN [st EXCEPT !.loose_candidate = sn]
    ELSE IF b = "label_only" /\ st.label_only_candidate = NoSheet
    THEN [st EXCEPT !.label_only_candidate = sn]
    ELSE st

RECURSIVE ScanSheets(_, _, _)
ScanSheets(sheet_names, label, st) ==
    IF sheet_names = <<>> THEN st
    ELSE ScanSheets(Tail(sheet_names), label,
                    LoopBody(st, Head(sheet_names),
                             SheetBranch(Head(sheet_names), label)))

\* "if not target: target = loose_candidate or label_only_candidate"
ChosenOf(st) ==
    IF st.target # NoSheet THEN st.target
    ELSE IF st.loose_candidate # NoSheet THEN st.loose_candidate
    ELSE st.label_only_candidate

\* the sheet find_and_extract_histogram_data reads, NoSheet for (False, None)
find_histogram_sheet(label, sheet_names) ==
    ChosenOf(ScanSheets(sheet_names, label, NoCandidates))

----------------------------------------------------------------------------
(* Workbooks histogram_<label>.xlsx of at most MaxSheets sheets            *)

MaxSheets == 3

HistLabels == { <<"1", "2">>, <<"1", "2", "-", "3">>, <<"b">> }

HistSheetNames ==
    { <<"histogram", "_", "1", "2">>,
      <<"Histogram", " ", "1", "2">>,
      <<"1", "2">>,
      <<"histogram", "_", "x", "1", "2">>,
      <<"histogram", "_", "1", "2", "b">>,
      <<"histogram", "_", "1", "2", "-", "3">>,
      <<"histogram", "_", "1", "2", "3">>,
      <<"1", "2", " ", "histogram">>,
      <<"histogram", "_", "b">>,
      <<"b", "1">>,
      <<"x">> }

InitHistogram ==
    /\ histLabel \in HistLabels
    /\ histSheets = <<>>
    /\ histTarget = NoSheet
    /\ histPhase = "open"
    /\ IdleNormalize
    /\ IdleMerge
    /\ IdleArchive
    /\ IdleConfig
    /\ IdleLoad
    /\ IdleRegistros
    /\ IdlePdr
    /\ IdleTemplate

\* the next sheet of the workbook; sheet names of a workbook are distinct
AddSheet ==
    /\ histPhase = "open"
    /\ Len(histSheets) < MaxSheets
    /\ \E sn \in HistSheetNames :
          /\ ~Contains(histSheets, sn)
          /\ histSheets' = Append(histSheets, sn)
    /\ UNCHANGED <<histLabel, histTarget, histPhase, varsN, varsM, varsA, varsC, varsL, varsR, varsP, varsT>>

\* find_and_extract_histogram_data(label, input_folder) on that workbook
FindHistogram ==
    /\ histPhase = "open"
    /\ histSheets # <<>>
    /\ histTarget' = find_histogram_sheet(histLabel, histSheets)
    /\ histPhase' = "done"
    /\ UNCHANGED <<histLabel, histSheets, varsN, varsM, varsA, varsC, varsL, varsR, varsP, varsT>>

NextHistogram ==
    \/ AddSheet
    \/ FindHistogram

SpecHistogram == InitHistogram /\ [][NextHistogram]_vars

\* the tier of the cascade a sheet matches at, by the branch it takes; 0 for
\* the branches the cascade does not name
MatchTier(sn, label) ==
    CASE SheetBranch(sn, label) = "exact" -> 1
      [] SheetBranch(sn, label) = "suffix" -> 2
      [] SheetBranch(sn, label) = "token" -> 3
      [] SheetBranch(sn, label) = "label_only" -> 4
      [] OTHER -> 0

(* C24: the tiers are applied in the order exact canonical match, suffix   *)
(* match, numeric-token match, last-resort label match: the chosen sheet   *)
(* never matches at a lower tier than another sheet of the workbook,       *)
(* whatever the order of the sheets.                                       *)
C24_TierPriority ==
    (histPhase = "done" /\ MatchTier(histTarget, histLabel) > 0)
        => \A i \in DOMAIN histSheets :
              MatchTier(histSheets[i], histLabel) > 0
                  => MatchTier(histSheets[i], histLabel)
                        >= MatchTier(histTarget, histLabel)

----------------------------------------------------------------------------
(* load_suggested_paths of the PDR, DSC and Combine windows. A path is an  *)
(* sequence of components, <<>> the empty field; os.path.exists(p) is     *)
(* p \in on_disk.                                                          *)

\* "if os.path.exists(suggested[f]) or not self.<f>: self.<f> = suggested[f]"
TakeIfExistsOrUnset(held, sug, on_disk, f) ==
    IF sug[f] \in on_disk \/ held[f] = <<>> THEN sug[f] ELSE held[f]

\* "if f in suggested"
InSuggested(sug, f) == f \in DOMAIN sug

\* "if sug.get(f)"
SugGet(sug, f) == f \in DOMAIN sug /\ sug[f] # <<>>

PdrFields == {"input_folder", "output_folder", "registros_file"}

\* PDRModule.load_suggested_paths
pdr_load_suggested_paths(held, sug, on_disk) ==
    [f \in PdrFields |->
        IF InSuggested(sug, f) THEN TakeIfExistsOrUnset(held, sug, on_disk, f)
        ELSE held[f]]

DscFields == {"input_folder", "output_folder", "results_file"}

\* DSCModule.load_suggested_paths
dsc_load_suggested_paths(held, sug, on_disk) ==
    IF DOMAIN sug = {} THEN held
    ELSE [f \in DscFields |->
            IF ~SugGet(sug, f) THEN held[f]
            ELSE IF f = "results_file" THEN sug[f]
            ELSE TakeIfExistsOrUnset(held, sug, on_disk, f)]

\* the General tab files and the four result files of a foam type
PaperFiles == {"doe_file", "density_file"}

FoamFiles == {"sem", "pdr", "oc", "dsc"}

CombineFields == PaperFiles \cup FoamFiles \cup {"output_folder", "results_file"}

\* os.path.join(self.output_folder_var.get(), f"All_Results_{current_date}.xlsx")
ResultsIn(folder) == Join(folder, <<"All_Results">>)

\* the output folder after "Update output paths"
CombineOutputFolder(held, sug, on_disk) ==
    IF InSuggested(sug, "output_folder")
    THEN TakeIfExistsOrUnset(held, sug, on_disk, "output_folder")
    ELSE held["output_folder"]

\* CombineModule.load_suggested_paths; sug holds the paths the method builds
\* (DoE.xlsx and Density.xlsx under the base path, the result file of each
\* module for the foam type) and the Combine entry of get_suggested_paths
combine_load_suggested_paths(held, sug, on_disk, base_path) ==
    IF base_path = "" THEN held
    ELSE [f \in CombineFields |->
            IF f \in PaperFiles THEN (IF sug[f] \in on_disk THEN sug[f] ELSE held[f])
            ELSE IF f \in FoamFiles THEN sug[f]
            ELSE IF f = "output_folder" THEN CombineOutputFolder(held, sug, on_disk)
            ELSE IF CombineOutputFolder(held, sug, on_disk) # <<>>
                 THEN ResultsIn(CombineOutputFolder(held, sug, on_disk))
                 ELSE held[f]]

\* the path chosen with Browse, and two paths a suggestion can name
UserPath == <<"u">>

SuggestedPaths == { <<"s">>, <<"t">> }

SugDicts(fields) ==
    UNION { [D -> SuggestedPaths] : D \in SUBSET fields }

\* what Combine builds for itself is always there, one path per kind of file
CombineSugs ==
    { [f \in PaperFiles \cup FoamFiles \cup D |->
          IF f \in D THEN o ELSE IF f \in {"doe_file", "sem", "oc"} THEN <<"s">> ELSE <<"t">>] :
        D \in SUBSET {"output_folder"}, o \in SuggestedPaths }

InitLoad ==
    /\ \/ /\ loadModule = "PDR"
          /\ loadFields \in [PdrFields -> {<<>>, UserPath}]
          /\ loadSug \in SugDicts(PdrFields)
          /\ loadBase = "root"
       \/ /\ loadModule = "DSC"
          /\ loadFields \in [DscFields -> {<<>>, UserPath}]
          /\ loadSug \in SugDicts(DscFields)
          /\ loadBase = "root"
       \/ /\ loadModule = "Combine"
          /\ loadFields \in [CombineFields -> {<<>>, UserPath}]
          /\ loadSug \in CombineSugs
          /\ loadBase \in {"", "root"}
    /\ loadDisk \in SUBSET SuggestedPaths
    /\ loadPhase = "open"
    /\ IdleNormalize
    /\ IdleMerge
    /\ IdleArchive
    /\ IdleConfig
    /\ IdleHistogram
    /\ IdleRegistros
    /\ IdlePdr
    /\ IdleTemplate

Reloaded(fields) ==
    /\ loadPhase = "open"
    /\ loadFields' = fields
    /\ loadPhase' = "loaded"
    /\ UNCHANGED <<loadModule, loadSug, loadBase, loadDisk,
                   varsN, varsM, varsA, varsC, varsH, varsR, varsP, varsT>>

ReloadPDR ==
    /\ loadModule = "PDR"
    /\ Reloaded(pdr_load_suggested_paths(loadFields, loadSug, loadDisk))

ReloadDSC ==
    /\ loadModule = "DSC"
    /\ Reloaded(dsc_load_suggested_paths(loadFields, loadSug, loadDisk))

ReloadCombine ==
    /\ loadModule = "Combine"
    /\ Reloaded(combine_load_suggested_paths(loadFields, loadSug, loadDisk, loadBase))

NextLoad ==
    \/ ReloadPDR
    \/ ReloadDSC
    \/ ReloadCombine

SpecLoad == InitLoad /\ [][NextLoad]_vars

\* the suggestion a field has at a reload: the entry of the dict, for the
\* results file of Combine the dated file of the output folder; <<>> for none
SuggestionFor(f) ==
    IF loadModule = "Combine" /\ loadBase = "" THEN <<>>
    ELSE IF loadModule = "Combine" /\ f = "results_file"
    THEN (IF CombineOutputFolder(loadFields, loadSug, loadDisk) # <<>>
          THEN ResultsIn(CombineOutputFolder(loadFields, loadSug, loadDisk))
          ELSE <<>>)
    ELSE IF f \in DOMAIN loadSug THEN loadSug[f]
    ELSE <<>>

(* C25: when a module reloads its suggested paths, a field that holds a    *)
(* value is replaced by the suggestion only if the suggested path exists   *)
(* on on_disk, and a field that holds no value takes the suggestion; for      *)
(* every path field of the PDR, DSC and Combine modules.                   *)
C25_SuggestionRule ==
    [][ loadPhase' = "loaded" =>
          \A f \in DOMAIN loadFields :
              /\ (loadFields[f] # <<>> /\ loadFields'[f] # loadFields[f])
                    => SuggestionFor(f) \in loadDisk
              /\ (loadFields[f] = <<>> /\ SuggestionFor(f) # <<>>)
                    => loadFields'[f] = SuggestionFor(f) ]_vars

----------------------------------------------------------------------------
(* PDRModule._extract_label_from_filename and                              *)
(* PDRModule._fallback_update_registros_file. In a file name the foam      *)
(* type, the extension and the header word are one element each: the code  *)
(* matches the foam type whole and splits the extension off whole.         *)

\* str.lower(), and re.I on the foam type
FoldC(c) ==
    CASE c = "HDPE" -> "hdpe"
      [] c = "PP" -> "pp"
      [] c = "A" -> "a"
      [] c = "Filename" -> "filename"
      [] OTHER -> c

Fold(s) == [i \in 1..Len(s) |-> FoldC(s[i])]

\* an element that starts with the extension separator
IsDot(c) == c \in {".", ".csv"}

\* p.rfind("."), 0 for -1
LastDot(s) ==
    IF \E i \in DOMAIN s : IsDot(s[i])
    THEN CHOOSE i \in DOMAIN s : IsDot(s[i]) /\ \A j \in DOMAIN s : IsDot(s[j]) => j <= i
    ELSE 0

\* os.path.splitext(filename)[0]: the name up to its last dot, unless only
\* dots come before that dot
SplitextBase(s) ==
    IF LastDot(s) > 0 /\ \E j \in 1..(LastDot(s) - 1) : s[j] # "."
    THEN SubSeq(s, 1, LastDot(s) - 1)
    ELSE s

\* the class [\s_\-\.]
IsNameSep(c) == IsSpace(c) \/ c \in {"_", "-", "."}

\* length of the run of separators at the head of s
RECURSIVE SepRun(_)
SepRun(s) ==
    IF s # <<>> /\ IsNameSep(Head(s)) THEN 1 + SepRun(Tail(s)) ELSE 0

\* group 1 of [\s_\-\.]+(.+)$ on what follows the foam type, given the run k
\* of separators at its head; <<>> when the pattern does not match. The
\* greedy run gives back its last separator when nothing follows it.
LabelGroup(rest, k) ==
    IF k = 0 THEN <<>>
    ELSE IF k < Len(rest) THEN SubSeq(rest, k + 1, Len(rest))
    ELSE IF k >= 2 THEN SubSeq(rest, k, k)
    ELSE <<>>

\* re.match(r'^' + re.escape(foam) + r'[\s_\-\.]+(.+)$', base, flags=re.I)
FoamPrefixed(base, foam_type) ==
    /\ foam_type # <<>>
    /\ StartsWith(Fold(base), Fold(foam_type))
    /\ LabelGroup(SubSeq(base, Len(foam_type) + 1, Len(base)),
                  SepRun(SubSeq(base, Len(foam_type) + 1, Len(base)))) # <<>>

\* _extract_label_from_filename with self.current_foam_type = foam_type
extract_label_from_filename(filename, foam_type) ==
    IF FoamPrefixed(SplitextBase(filename), Strip(foam_type))
    THEN Strip(LabelGroup(
            SubSeq(SplitextBase(filename), Len(Strip(foam_type)) + 1,
                   Len(SplitextBase(filename))),
            SepRun(SubSeq(SplitextBase(filename), Len(Strip(foam_type)) + 1,
                          Len(SplitextBase(filename))))))
    ELSE SplitextBase(filename)

\* an empty cell: ws.cell(...).value is None
NoneCell == <<>>

\* str(val).strip().lower()
NameKey(val) == Fold(Strip(val))

\* existing_names: the keys of the filled cells of column A, row 1 included
existing_names(rows) ==
    { NameKey(rows[r]) : r \in { i \in DOMAIN rows : rows[i] # NoneCell } }

\* last_row: the last filled row of column A, 1 when there is none
last_filled_row(rows) ==
    IF \E r \in DOMAIN rows : rows[r] # NoneCell
    THEN CHOOSE r \in DOMAIN rows :
            rows[r] # NoneCell /\ \A q \in DOMAIN rows : rows[q] # NoneCell => q <= r
    ELSE 1

\* ws.cell(row=next_row, column=1, value=label)
WriteCell(rows, next_row, label) ==
    [r \in 1..(IF next_row > Len(rows) THEN next_row ELSE Len(rows)) |->
        IF r = next_row THEN label
        ELSE IF r <= Len(rows) THEN rows[r]
        ELSE NoneCell]

\* column A after _fallback_update_registros_file wrote label, or skipped it
UpdatedRows(rows, label) ==
    IF NameKey(label) \in existing_names(rows) THEN rows
    ELSE WriteCell(rows, last_filled_row(rows) + 1, label)

\* _fallback_update_registros_file(filename, output_path) on a readable ledger
fallback_update_registros_file(rows, filename, foam_type) ==
    UpdatedRows(rows, extract_label_from_filename(filename, foam_type))

----------------------------------------------------------------------------
(* A ledger with its header row only, and at most MaxCalls updates          *)

MaxCalls == 3

\* headers[0] of open_or_create_registros_file
HeaderCell == <<"Filename">>

RegFoams == { <<"HDPE">>, <<"PP">> }

NamePrefixes == { <<>>, <<"HDPE">>, <<"hdpe">> }

NameSeps == { <<>>, <<"_", " ">>, <<".">> }

NameLabels == { <<"1">>, <<"a">>, <<"A">>, <<"Filename">> }

\* the .csv files of the input folder
CsvNames ==
    { pre \o sp \o lb \o <<".csv">> :
        pre \in NamePrefixes, sp \in NameSeps, lb \in NameLabels }

InitRegistros ==
    /\ regRows = <<HeaderCell>>
    /\ regFoam \in RegFoams
    /\ regCalls = <<>>
    /\ regRets = <<>>
    /\ IdleNormalize
    /\ IdleMerge
    /\ IdleArchive
    /\ IdleConfig
    /\ IdleHistogram
    /\ IdleLoad
    /\ IdlePdr
    /\ IdleTemplate

FallbackUpdate ==
    /\ Len(regCalls) < MaxCalls
    /\ \E filename \in CsvNames :
          /\ regRows' = fallback_update_registros_file(regRows, filename, regFoam)
          /\ regCalls' = Append(regCalls, filename)
    /\ regRets' = Append(regRets, TRUE)
    /\ UNCHANGED <<regFoam, varsN, varsM, varsA, varsC, varsH, varsL, varsP, varsT>>

NextRegistros ==
    \/ FallbackUpdate

SpecRegistros == InitRegistros /\ [][NextRegistros]_vars

\* a label joins the list unless one with the same key is there
AddOnce(labels, label) ==
    IF \E i \in DOMAIN labels : NameKey(labels[i]) = NameKey(label) THEN labels
    ELSE Append(labels, label)

\* the extracted labels of the calls, one per key, in order of first appearance
RECURSIVE FirstLabels(_, _, _)
FirstLabels(calls, foam_type, labels) ==
    IF calls = <<>> THEN labels
    ELSE FirstLabels(Tail(calls), foam_type,
                     AddOnce(labels, extract_label_from_filename(Head(calls), foam_type)))

(* C26: from a ledger with only its header row, every call of              *)
(* _fallback_update_registros_file returns True and the ledger holds       *)
(* exactly one data row per distinct extracted label (compared             *)
(* case-insensitively), in order of first appearance, with no empty row;   *)
(* a repeated file adds nothing.                                           *)
C26_OneRowPerLabel ==
    /\ \A i \in DOMAIN regRets : regRets[i]
    /\ regRows # <<>> =>
          /\ regRows[1] = HeaderCell
          /\ Tail(regRows) = FirstLabels(regCalls, regFoam, <<>>)

----------------------------------------------------------------------------
(* The PDR window across foam types: Browse, the foam type selector and    *)
(* "Save Paths", on the configuration store                                *)

\* the dict save_current_paths builds: the fields that hold a value
FilledPaths(fields) ==
    [f \in { g \in DOMAIN fields : fields[g] # <<>> } |-> fields[f]]

\* PDRModule.save_current_paths with self.current_foam_type = foam_type
pdr_save_current_paths(cfg, foam_type, fields, now) ==
    IF FilledPaths(fields) = EmptyDict THEN Result(cfg, FALSE, "None")
    ELSE save_module_paths(cfg, "PDR", foam_type, FilledPaths(fields), None, now)

\* on_foam_type_changed up to "self.current_foam_type = new_foam_type": the
\* paths in memory saved for the foam type that was current
SaveBeforeSwitch(cfg, foam_type, fields, now) ==
    IF \E f \in DOMAIN fields : fields[f] # <<>>
    THEN pdr_save_current_paths(cfg, foam_type, fields, now)
    ELSE Result(cfg, FALSE, "None")

\* the fields after on_foam_type_changed(new_foam_type), given the store after
\* the save: load_suggested_paths runs on the fields as they are
FieldsAfterSwitch(cfg, fields, new_foam_type, on_disk) ==
    pdr_load_suggested_paths(fields,
                             get_suggested_paths(cfg, "PDR", new_foam_type, None).view,
                             on_disk)

\* a folder or file picked in the dialog that Browse opens for a foam type
BrowsedPath(foam_type) == <<"u", foam_type>>

NoFields == [f \in PdrFields |-> <<>>]

PdrRoot == <<"r">>

\* the store when the window opens: a first start, or a paper with its root
PdrConfigs ==
    { DefaultConfig, set_paper_root_path(DefaultConfig, "Paper 1", PdrRoot).cfg }

\* what exists on disk: nothing, or the PDR folders of every foam type
PdrFolders ==
    { Join(PdrRoot, <<ft, "PDR", io>>) :
        ft \in {"Foam_Type_1", "Foam_Type_2", "Foam_Type_3"}, io \in {"Input", "Output"} }

InitPdr ==
    /\ \E cfg \in PdrConfigs : \E on_disk \in {{}, PdrFolders} :
          /\ config = get_suggested_paths(cfg, "PDR", cfg.current_foam_type, None).cfg
          /\ pdrFoam = cfg.current_foam_type
          /\ pdrFields = FieldsAfterSwitch(cfg, NoFields, cfg.current_foam_type, on_disk)
          /\ pdrDisk = on_disk
    /\ disk = NoDocument
    /\ op = [name |-> "", arg |-> <<>>]
    /\ ret = "None"
    /\ view = EmptyDict
    /\ nops = 0
    /\ IdleNormalize
    /\ IdleMerge
    /\ IdleArchive
    /\ IdleHistogram
    /\ IdleLoad
    /\ IdleRegistros
    /\ IdleTemplate

\* browse_input_folder, browse_output_folder, browse_registros_file with a
\* selection made
Browse ==
    /\ nops < MaxOps
    /\ \E f \in PdrFields :
          pdrFields' = [pdrFields EXCEPT ![f] = BrowsedPath(pdrFoam)]
    /\ config' = get_suggested_paths(config, "PDR", pdrFoam, None).cfg
    /\ nops' = nops + 1
    /\ UNCHANGED <<pdrFoam, pdrDisk, disk, op, ret, view,
                   varsN, varsM, varsA, varsH, varsL, varsR, varsT>>

\* the store after the selector and the save of on_foam_type_changed
StoreAfterSwitch(cfg, foam_type, fields, new_foam_type, now) ==
    SaveBeforeSwitch(set_current_foam_type(cfg, new_foam_type).cfg,
                     foam_type, fields, now).cfg

\* FoamTypeSelector.on_foam_type_changed, then PDRModule.on_foam_type_changed
SwitchFoam ==
    /\ nops < MaxOps
    /\ \E new_type \in Range(config.foam_types) \ {pdrFoam} :
          /\ pdrFoam' = new_type
          /\ pdrFields' = FieldsAfterSwitch(
                 StoreAfterSwitch(config, pdrFoam, pdrFields, new_type, Timestamp(nops + 1)),
                 pdrFields, new_type, pdrDisk)
          /\ config' = get_suggested_paths(
                 StoreAfterSwitch(config, pdrFoam, pdrFields, new_type, Timestamp(nops + 1)),
                 "PDR", new_type, None).cfg
          /\ disk' = Saved(StoreAfterSwitch(config, pdrFoam, pdrFields, new_type,
                                            Timestamp(nops + 1)))
    /\ nops' = nops + 1
    /\ UNCHANGED <<pdrDisk, op, ret, view, varsN, varsM, varsA, varsH, varsL, varsR, varsT>>

\* the "Save Paths" button
SavePaths ==
    /\ nops < MaxOps
    /\ config' = pdr_save_current_paths(config, pdrFoam, pdrFields, Timestamp(nops + 1)).cfg
    /\ disk' = IF pdr_save_current_paths(config, pdrFoam, pdrFields, Timestamp(nops + 1)).save
               THEN Saved(config')
               ELSE disk
    /\ nops' = nops + 1
    /\ UNCHANGED <<pdrFoam, pdrFields, pdrDisk, op, ret, view,
                   varsN, varsM, varsA, varsH, varsL, varsR, varsT>>

NextPdr ==
    \/ Browse
    \/ SwitchFoam
    \/ SavePaths

SpecPdr == InitPdr /\ [][NextPdr]_vars

\* a path saved or suggested for a foam type, or browsed while it was current,
\* names the foam type among its components
PathOf(path, foam_type) == Contains(path, foam_type)

\* the PDR entry of the current paper for a foam type
PdrEntry(foam_type) == StoredEntry(config, "PDR", config.current_paper, foam_type)

(* C29: in the PDR module, after any sequence of foam-type switches,       *)
(* Browse selections and save_current_paths calls, the paths stored under  *)
(* the PDR entry of foam type B are paths saved or suggested for B or      *)
(* selected while B was current: a switch from A to B never leaves A's     *)
(* folders or Registros file in memory to be saved later under B.          *)
C29_NoCarryOver ==
    \A B \in Range(config.foam_types) :
        \A f \in PdrFields \cap DOMAIN PdrEntry(B) :
            PathOf(PdrEntry(B)[f], B)

----------------------------------------------------------------------------
(* The DoE template of "New paper" and the DoE reader, column by column.   *)
(* A sheet is its name, its header row and one data row, cell by cell in   *)
(* column order; the label cell holds the label as written.                *)

\* cols of create_doe_template_v2
TemplateColumns ==
    << "Label", "m (g)", "Water (g)", "T (C)", "P CO2 (bar)", "t (min)" >>

\* the row of '' that the template is written with
BlankRow == [i \in DOMAIN TemplateColumns |-> IF i = 1 THEN <<>> ELSE NA]

\* create_doe_template_v2: one sheet per foam type, named foam[:31]
create_doe_template_v2(foam_types) ==
    [i \in DOMAIN foam_types |->
        [name |-> Cut(foam_types[i], SheetNameLimit),
         columns |-> TemplateColumns,
         cells |-> BlankRow]]

ColumnLetters == << "A", "B", "C", "D", "E", "F", "G", "H" >>

\* _cm_excel_col_idx for the one-letter columns: zero-based
cm_excel_col_idx(letters) ==
    (CHOOSE i \in DOMAIN ColumnLetters : ColumnLetters[i] = letters) - 1

\* _cm_col on one row: the cell at the letter, NA past the last column
cm_col(cells, letters) ==
    IF cm_excel_col_idx(letters) >= Len(cells) THEN NA
    ELSE cells[cm_excel_col_idx(letters) + 1]

\* the label cell at column A: nan past the last column and for a blank cell
cm_label(cells) ==
    IF cm_excel_col_idx("A") >= Len(cells) THEN <<>> ELSE cells[1]

\* the letter _read_doe_pos reads each output column from
DoeLetter(c) ==
    CASE c = "Label" -> "A"
      [] c = "Additive" -> "B"
      [] c = "Additive %" -> "C"
      [] c = "m(g)" -> "D"
      [] c = "Water (g)" -> "E"
      [] c = "T (C)" -> "F"
      [] c = "P CO2 (bar)" -> "G"
      [] c = "t (min)" -> "H"

\* the row "out" of _read_doe_pos for one sheet row
DoeRowAt(cells, fm) ==
    [c \in Range(DoeColumns) \ {"Psat (MPa)"} |->
        IF c = "Label" THEN Strip(NormCell(cm_label(cells)))
        ELSE IF c = "Polymer" THEN Str(fm)
        ELSE IF c = "Additive %" THEN to_numeric(cm_col(cells, DoeLetter(c)))
        ELSE IF c = "Additive" /\ cm_col(cells, DoeLetter(c)) = NA THEN Str(<<>>)
        ELSE cm_col(cells, DoeLetter(c))]

\* pd.read_excel(path, sheet_name=foam): the sheet of that name
HasSheetNamed(sheets, fm) == \E i \in DOMAIN sheets : sheets[i].name = fm

SheetNamed(sheets, fm) == sheets[CHOOSE i \in DOMAIN sheets : sheets[i].name = fm]

\* _read_doe_pos(path, foam) on a workbook of such sheets; a missing sheet
\* raises inside the try
read_doe_sheet(sheets, fm) ==
    IF ~HasSheetNamed(sheets, fm) THEN EmptyFrame(DoeColumns)
    ELSE Project(AddMissingColumns(
                    DoeFrame(<<DoeRowAt(SheetNamed(sheets, fm).cells, fm)>>),
                    DoeColumns),
                 DoeColumns)

----------------------------------------------------------------------------
(* A new paper with at most MaxTemplateFoams foam types                     *)

MaxTemplateFoams == 2

LongFoam == [i \in 1..(SheetNameLimit + 1) |-> "F"]

TemplateFoams == { <<"F", "1">>, <<"F", "2">>, LongFoam }

\* the foam types selected for the paper: at least one, each once
TemplateFoamLists ==
    { s \in UNION { [1..n -> TemplateFoams] : n \in 1..MaxTemplateFoams } :
        \A i \in DOMAIN s : \A j \in DOMAIN s : s[i] = s[j] => i = j }

\* what the user enters under the headers of a sheet
FilledRows ==
    { [i \in DOMAIN TemplateColumns |->
          IF i = 1 THEN <<"2", "0", "2", "5">> ELSE Num(v[i - 1])] :
        v \in [1..(Len(TemplateColumns) - 1) -> {1, 2}] }

InitTemplate ==
    /\ tplFoams \in TemplateFoamLists
    /\ tplSheets = <<>>
    /\ tplAsked = <<>>
    /\ tplOut = NoFrame
    /\ IdleNormalize
    /\ IdleMerge
    /\ IdleArchive
    /\ IdleConfig
    /\ IdleHistogram
    /\ IdleLoad
    /\ IdleRegistros
    /\ IdlePdr

\* "New paper": create_doe_template_v2(paper_path, selected_foams)
CreateTemplate ==
    /\ tplSheets = <<>>
    /\ tplSheets' = create_doe_template_v2(tplFoams)
    /\ UNCHANGED <<tplFoams, tplAsked, tplOut,
                   varsN, varsM, varsA, varsC, varsH, varsL, varsR, varsP>>

\* the user fills the data row of one sheet in, under its headers
FillIn ==
    /\ tplAsked = <<>>
    /\ \E i \in DOMAIN tplSheets : \E row \in FilledRows :
          /\ tplSheets[i].cells = BlankRow
          /\ tplSheets' = [tplSheets EXCEPT ![i].cells = row]
    /\ UNCHANGED <<tplFoams, tplAsked, tplOut,
                   varsN, varsM, varsA, varsC, varsH, varsL, varsR, varsP>>

\* Combine reads the DoE of one foam type of the paper
ReadTemplate ==
    /\ tplSheets # <<>>
    /\ tplAsked = <<>>
    /\ \E i \in DOMAIN tplFoams :
          /\ tplAsked' = tplFoams[i]
          /\ tplOut' = read_doe_sheet(tplSheets, tplFoams[i])
    /\ UNCHANGED <<tplFoams, tplSheets,
                   varsN, varsM, varsA, varsC, varsH, varsL, varsR, varsP>>

NextTemplate ==
    \/ CreateTemplate
    \/ FillIn
    \/ ReadTemplate

SpecTemplate == InitTemplate /\ [][NextTemplate]_vars

\* the output column of the reader that carries the name of a template header
OutColumn(header) == IF header = "m (g)" THEN "m(g)" ELSE header

\* the sheet create_doe_template_v2 wrote for the i-th foam type was filled in
FilledSheet(i) == i \in DOMAIN tplSheets /\ tplSheets[i].cells # BlankRow

(* C30: for a DoE.xlsx produced by create_doe_template_v2 and filled in    *)
(* under its headers, _read_doe_pos returns every value under the output   *)
(* column of the same name (Label, m(g), Water (g), T (C), P CO2 (bar),    *)
(* t (min)), for every foam type of the paper.                             *)
C30_TemplateMatchesReader ==
    \A i \in DOMAIN tplFoams :
        (tplAsked = tplFoams[i] /\ FilledSheet(i))
            => /\ Len(tplOut.rows) = 1
               /\ \A k \in DOMAIN TemplateColumns :
                     tplOut.rows[1][OutColumn(TemplateColumns[k])]
                        = tplSheets[i].cells[k]

====
